---- MODULE Spec2Model ----
(***************************************************************************)
(* V.I.R.A: the bounded-concurrency analysis pool                          *)
(* (services/geminiAnalysisPool): Semaphore, CircuitBreaker and            *)
(* ExponentialBackoff, and their composition in                            *)
(* GeminiAnalysisPool.executeWithBackpressure.                             *)
(*                                                                         *)
(* The code runs on one JavaScript event loop.  SemSpec, BreakerSpec and   *)
(* RetrySpec drive one primitive each through its public methods, called   *)
(* at any time by any caller.  PoolSpec is the pool: each of its actions   *)
(* is one turn of the event loop, that is the event that starts the turn   *)
(* (a call of executeWithBackpressure, an analysis call settling, a timer) *)
(* and every promise continuation that runs before the next event.         *)
(***************************************************************************)
EXTENDS Integers, Sequences, FiniteSets, TLC

\* ---- bounds of the model ----
NumTasks == 4          \* callers of one primitive
PoolTasks == 3         \* tasks handed to the pool
MaxBatches == 2        \* calls of executeWithBackpressure on one pool
MaxTime == 3           \* last value of the clock
maxConcurrent == 2     \* PoolConfig.maxConcurrent (Semaphore.max)
failureThreshold == 2  \* PoolConfig.failureThreshold
timeout == 1           \* PoolConfig.timeout, in clock units
maxAttempts == 2       \* PoolConfig.maxAttempts
MaxSubmits == 2        \* batches accepted for validation
MaxFaults == 2         \* external calls that throw
MaxPages == 2          \* pages of a PDF
MaxRenders == 1        \* renders with a new onSuccess while COMPLETE
MaxResults == 2        \* results of one kind handed to the merge
MaxNodes == 2          \* conversation_nodes of one email result
MaxNodeId == 3         \* largest node_id an email result uses
MaxItems == 2          \* action_items of one email result
MaxRevenue == 2        \* largest opp_revenue

Tasks == 1..NumTasks

\* What one invocation of a task does: it resolves, or it throws a
\* GeminiApiError with isRetryable true / false, or something that is no
\* GeminiApiError.
Outcomes == {"ok", "retryable", "fatal", "other"}

VARIABLES
    count,            \* Semaphore.count
    queue,            \* Semaphore.queue: the resolve callbacks, by caller
    state,            \* CircuitBreaker.state
    failureCount,     \* CircuitBreaker.failureCount
    lastFailureTime,  \* CircuitBreaker.lastFailureTime
    now,              \* Date.now()
    pc,               \* where each caller / task is
    hist,             \* per task: the outcome of each invocation so far
    result,           \* per task: how its promise settled
    batches,          \* per executeWithBackpressure call: its tasks
    outcome,          \* per executeWithBackpressure call: what it returned / threw
    overtaken,        \* history: calls in which a task settled before an earlier one
    arrivals,         \* history: blocked callers in the order they called acquire()
    handoff,          \* history: waiters release() resolved, not yet resumed
    late,             \* history: callers that blocked while a hand-off was pending
    consec,           \* history: guarded calls failed since the last successful one
    failedAt,         \* history: the time of the last failed guarded call
    probes,           \* history: calls admitted by OPEN -> HALF-OPEN, still in flight
    crowd,            \* history: calls admitted while a probe was in flight
    revision,         \* which source file of useProjectOrchestrator is built
    value,            \* OrchestratorState.value
    context,          \* OrchestratorState.context
    effect,           \* the useEffect that runs after this render, if any
    runs,             \* the runPdfConversion / runAnalysis calls made so far
    path,             \* history: the values taken since the last accepted SUBMIT_FILES
    sent,             \* history: the events dispatched in the last turn that changed the state
    faults,           \* history: external calls that have thrown so far
    submits,          \* history: batches accepted for validation so far
    called,           \* history: the arguments of the onSuccess calls since the last accepted SUBMIT_FILES
    mergeIn,          \* salesforceResults and emailResults handed to the merge
    mergeOut          \* what the merge made of them, once it has run

\* arrivals, handoff and late are kept by the actions of SemSpec; consec,
\* failedAt, probes and crowd by those of BreakerSpec; hist by those of RetrySpec
\* and PoolSpec; overtaken by those of PoolSpec.
semVars == <<count, queue>>
cbVars == <<state, failureCount, lastFailureTime>>
taskVars == <<pc, hist, result>>
poolVars == <<batches, outcome, overtaken>>
semHist == <<arrivals, handoff, late>>
cbHist == <<consec, failedAt, probes, crowd>>
mergeVars == <<mergeIn, mergeOut>>
orchVars == <<revision, value, context, effect, runs, path, sent, faults, submits,
              called, mergeVars>>

vars == <<count, queue, state, failureCount, lastFailureTime, now, pc, hist,
          result, batches, outcome, overtaken, arrivals, handoff, late,
          consec, failedAt, probes, crowd,
          revision, value, context, effect, runs, path, sent, faults, submits,
          called, mergeIn, mergeOut>>

NoResult == [status |-> "none"]
Fulfilled(v) == [status |-> "fulfilled", value |-> v]
Rejected(e) == [status |-> "rejected", reason |-> e]

\* The value task i resolves with, and the errors that settle it.
ValueOf(i) == [of |-> i]
TaskError(i, kind, attempt) == [task |-> i, kind |-> kind, attempt |-> attempt]
BreakerOpenError(i) == [task |-> i, kind |-> "open", attempt |-> -1]

\* A value that may be null: <<>> is null, <<x>> is x.
None == <<>>
Some(x) == <<x>>

\* The two source files of the hook: hooks/useProjectOrchestrator.ts, and
\* the one whose ProjectLifecycle has MERGING_RESULTS.
Hooks == "hooks/useProjectOrchestrator.ts"
WithMerging == "useProjectOrchestrator.ts with MERGING_RESULTS"
Revisions == {Hooks, WithMerging}

\* const initialState
initialContext ==
    [files |-> <<>>,
     convertedImagesFromPdfs |-> <<>>,
     fileProcessingStatus |-> <<>>,
     error |-> None,
     analysisPayload |-> None,
     finalImages |-> None,
     newlyCreatedProject |-> None]

initialState == [value |-> "IDLE", context |-> initialContext]

\* The pool primitives as constructed, and the hook as first rendered:
\* useReducer(orchestratorReducer, initialState), no effect having run.
Constructed ==
    /\ count = 0
    /\ queue = <<>>
    /\ state = "CLOSED"
    /\ failureCount = 0
    /\ lastFailureTime = 0
    /\ now = 0
    /\ pc = [i \in Tasks |-> "new"]
    /\ hist = [i \in Tasks |-> <<>>]
    /\ result = [i \in Tasks |-> NoResult]
    /\ batches = <<>>
    /\ outcome = <<>>
    /\ overtaken = {}
    /\ arrivals = <<>>
    /\ handoff = {}
    /\ late = {}
    /\ consec = 0
    /\ failedAt = 0
    /\ probes = {}
    /\ crowd = {}
    /\ value = initialState.value
    /\ context = initialState.context
    /\ effect = "none"
    /\ runs = <<>>
    /\ path = <<>>
    /\ sent = <<>>
    /\ faults = 0
    /\ submits = 0
    /\ called = <<>>

\* No results have been handed to the merge.
NoMerge ==
    /\ mergeIn = [salesforce |-> <<>>, email |-> <<>>]
    /\ mergeOut = None

Init == Constructed /\ revision = Hooks /\ NoMerge

\* Time passes.
Tick ==
    /\ now < MaxTime
    /\ now' = now + 1
    /\ UNCHANGED <<orchVars, semVars, cbVars, taskVars, poolVars, semHist, cbHist>>

(***************************************************************************)
(* Semaphore                                                               *)
(***************************************************************************)

\* A semaphore is [count, queue, granted]: granted lists the callers whose
\* acquire() promise the operation resolved, oldest first.
Sem == [count |-> count, queue |-> queue, granted |-> <<>>]

\* acquire with the test off by one (count <= max)
acquireOffByOne(s, c) ==
    IF s.count <= maxConcurrent
    THEN [s EXCEPT !.count = s.count + 1, !.granted = Append(s.granted, c)]
    ELSE [s EXCEPT !.queue = Append(s.queue, c)]

\* Semaphore.acquire by caller c
acquire(s, c) ==
    IF s.count < maxConcurrent
    THEN [s EXCEPT !.count = s.count + 1, !.granted = Append(s.granted, c)]
    ELSE [s EXCEPT !.queue = Append(s.queue, c)]

\* release that resolves the newest waiter (queue.pop() for queue.shift())
releaseNewest(s) ==
    LET s1 == [s EXCEPT !.count = s.count - 1]
    IN  IF Len(s1.queue) > 0
        THEN [count |-> s1.count + 1,
              queue |-> SubSeq(s1.queue, 1, Len(s1.queue) - 1),
              granted |-> Append(s1.granted, s1.queue[Len(s1.queue)])]
        ELSE s1

\* Semaphore.release
release(s) ==
    LET s1 == [s EXCEPT !.count = s.count - 1]
    IN  IF Len(s1.queue) > 0
        THEN [count |-> s1.count + 1,
              queue |-> Tail(s1.queue),
              granted |-> Append(s1.granted, Head(s1.queue))]
        ELSE s1

InSeq(x, sq) == \E k \in 1..Len(sq) : sq[k] = x

\* Caller c calls acquire(): its promise is resolved at once, or c is queued.
SemAcquire(c) ==
    /\ pc[c] = "new"
    /\ LET s == acquire(Sem, c)
       IN  /\ count' = s.count
           /\ queue' = s.queue
           /\ pc' = [pc EXCEPT ![c] = IF InSeq(c, s.granted) THEN "granted" ELSE "waiting"]
           /\ arrivals' = IF InSeq(c, s.granted) THEN arrivals ELSE Append(arrivals, c)
           /\ late' = IF ~InSeq(c, s.granted) /\ handoff # {} THEN late \cup {c} ELSE late
    /\ UNCHANGED <<orchVars, cbVars, now, hist, result, poolVars, handoff, cbHist>>

\* The continuation of caller c after its acquire() promise resolved.
SemResume(c) ==
    /\ pc[c] = "granted"
    /\ pc' = [pc EXCEPT ![c] = "holding"]
    /\ handoff' = handoff \ {c}
    /\ UNCHANGED <<orchVars, semVars, cbVars, now, hist, result, poolVars, arrivals, late, cbHist>>

\* Holder c calls release() and may call acquire() again later.
SemRelease(c) ==
    /\ pc[c] = "holding"
    /\ LET s == release(Sem)
       IN  /\ count' = s.count
           /\ queue' = s.queue
           /\ pc' = [j \in Tasks |->
                        IF j = c THEN "new"
                        ELSE IF InSeq(j, s.granted) THEN "granted" ELSE pc[j]]
           /\ arrivals' = SelectSeq(arrivals, LAMBDA y : ~InSeq(y, s.granted))
           /\ handoff' = handoff \cup {j \in Tasks : InSeq(j, s.granted)}
           /\ late' = {j \in late : ~InSeq(j, s.granted)}
    /\ UNCHANGED <<orchVars, cbVars, now, hist, result, poolVars, cbHist>>

SemNext ==
    \/ \E c \in Tasks : SemAcquire(c)
    \/ \E c \in Tasks : SemResume(c)
    \/ \E c \in Tasks : SemRelease(c)

SemSpec == Init /\ [][SemNext]_vars

\* Callers whose acquire() has been granted and who have not released.
Holders == {c \in Tasks : pc[c] \in {"granted", "holding"}}

\* C1: at no time do more than max callers hold a slot of the semaphore,
\* whatever the interleaving of acquire() and of release() by holders.
SemaphoreBound == Cardinality(Holders) <= maxConcurrent

\* C1 witness: a burst of max + 2 acquire() calls, max of them holding.
SemaphoreBoundWitness ==
    /\ Cardinality(Holders) = maxConcurrent
    /\ Len(arrivals) >= 2

\* C2: a blocked caller is granted only when it is the oldest blocked caller;
\* a release() that finds blocked callers grants the oldest in the same step;
\* and no acquire() is granted at once while a caller is blocked, so none
\* issued between a release() and the waiter's resumption overtakes the queue.
FifoHandoff ==
    [][ /\ \A c \in Tasks :
              /\ (pc[c] = "waiting" /\ pc'[c] = "granted")
                    => (arrivals # <<>> /\ c = Head(arrivals))
              /\ (pc[c] = "new" /\ pc'[c] = "granted") => arrivals = <<>>
        /\ ((\E h \in Tasks : pc[h] = "holding" /\ pc'[h] = "new") /\ arrivals # <<>>)
              => pc'[Head(arrivals)] = "granted"
      ]_vars

\* C2 witness: a waiter was handed a slot and has not resumed, and a caller
\* that called acquire() since then is queued behind the older waiters.
FifoHandoffWitness ==
    /\ handoff # {}
    /\ late # {}
    /\ Len(arrivals) >= 2

(***************************************************************************)
(* CircuitBreaker                                                          *)
(***************************************************************************)

CB == [state |-> state, failureCount |-> failureCount,
       lastFailureTime |-> lastFailureTime]

\* CircuitBreaker.trip
trip(cb) == [cb EXCEPT !.state = "OPEN"]

\* CircuitBreaker.reset
reset(cb) == [cb EXCEPT !.state = "CLOSED", !.failureCount = 0]

\* CircuitBreaker.onSuccess
onSuccess(cb) ==
    LET c1 == IF cb.state = "HALF-OPEN" THEN reset(cb) ELSE cb
    IN  [c1 EXCEPT !.failureCount = 0]

\* onFailure that trips only above the threshold (> for >=)
onFailureAbove(cb, t) ==
    LET c1 == [cb EXCEPT !.lastFailureTime = t]
    IN  IF c1.state = "HALF-OPEN"
        THEN trip(c1)
        ELSE LET c2 == [c1 EXCEPT !.failureCount = c1.failureCount + 1]
             IN  IF c2.failureCount > failureThreshold THEN trip(c2) ELSE c2

\* CircuitBreaker.onFailure at time t
onFailure(cb, t) ==
    LET c1 == [cb EXCEPT !.lastFailureTime = t]
    IN  IF c1.state = "HALF-OPEN"
        THEN trip(c1)
        ELSE LET c2 == [c1 EXCEPT !.failureCount = c1.failureCount + 1]
             IN  IF c2.failureCount >= failureThreshold THEN trip(c2) ELSE c2

\* The head of CircuitBreaker.execute at time t: the breaker afterwards, and
\* whether the call goes on to invoke the wrapped operation.
admit(cb, t) ==
    IF cb.state = "OPEN"
    THEN IF t - cb.lastFailureTime > timeout
         THEN [cb |-> [cb EXCEPT !.state = "HALF-OPEN"], invoke |-> TRUE]
         ELSE [cb |-> cb, invoke |-> FALSE]
    ELSE [cb |-> cb, invoke |-> TRUE]

\* Call i of circuitBreaker.execute(task) arrives: it is rejected, or the
\* wrapped operation is invoked.
Call(i) ==
    /\ pc[i] = "new"
    /\ LET a == admit(CB, now)
       IN  /\ state' = a.cb.state
           /\ failureCount' = a.cb.failureCount
           /\ lastFailureTime' = a.cb.lastFailureTime
           /\ IF a.invoke
              THEN /\ pc' = [pc EXCEPT ![i] = "running"]
                   /\ result' = result
              ELSE /\ pc' = [pc EXCEPT ![i] = "done"]
                   /\ result' = [result EXCEPT ![i] = Rejected(BreakerOpenError(i))]
           /\ probes' = IF state = "OPEN" /\ a.cb.state = "HALF-OPEN"
                        THEN probes \cup {i} ELSE probes
           /\ crowd' = IF a.invoke /\ probes # {} THEN crowd \cup {i} ELSE crowd
    /\ UNCHANGED <<orchVars, semVars, now, hist, poolVars, semHist, consec, failedAt>>

\* The wrapped operation of call i resolves: onSuccess, and the call resolves.
CallSucceeds(i) ==
    /\ pc[i] = "running"
    /\ LET cb == onSuccess(CB)
       IN  /\ state' = cb.state
           /\ failureCount' = cb.failureCount
           /\ lastFailureTime' = cb.lastFailureTime
    /\ pc' = [pc EXCEPT ![i] = "done"]
    /\ result' = [result EXCEPT ![i] = Fulfilled(ValueOf(i))]
    /\ consec' = 0
    /\ probes' = probes \ {i}
    /\ UNCHANGED <<orchVars, semVars, now, hist, poolVars, semHist, failedAt, crowd>>

\* The wrapped operation of call i throws: onFailure, and the call rejects.
CallFails(i) ==
    /\ pc[i] = "running"
    /\ LET cb == onFailure(CB, now)
       IN  /\ state' = cb.state
           /\ failureCount' = cb.failureCount
           /\ lastFailureTime' = cb.lastFailureTime
    /\ pc' = [pc EXCEPT ![i] = "done"]
    /\ result' = [result EXCEPT ![i] = Rejected(TaskError(i, "fatal", 0))]
    /\ consec' = consec + 1
    /\ failedAt' = now
    /\ probes' = probes \ {i}
    /\ UNCHANGED <<orchVars, semVars, now, hist, poolVars, semHist, crowd>>

BreakerNext ==
    \/ \E i \in Tasks : Call(i)
    \/ \E i \in Tasks : CallSucceeds(i)
    \/ \E i \in Tasks : CallFails(i)
    \/ Tick

BreakerSpec == Init /\ [][BreakerNext]_vars

\* C3: a failure that makes failureThreshold failed calls in a row leaves the
\* breaker OPEN; a call arriving after such a run, before timeout has passed
\* since its last failure, is rejected with the breaker-open error and never
\* invoked; and the breaker goes from CLOSED to OPEN only on the failure that
\* completes such a run, the count being the failures since the last success.
BreakerTrip ==
    [][ /\ (consec' > consec /\ consec' >= failureThreshold) => state' = "OPEN"
        /\ \A i \in Tasks :
              (/\ pc[i] = "new" /\ pc'[i] # "new"
               /\ consec >= failureThreshold
               /\ now - failedAt < timeout)
              => (pc'[i] = "done" /\ result'[i] = Rejected(BreakerOpenError(i)))
        /\ (state = "CLOSED" /\ state' = "OPEN") => consec' >= failureThreshold
        /\ state' = "CLOSED" => (failureCount' = consec' /\ consec' < failureThreshold)
      ]_vars

\* C3 witness: after a successful call, failureThreshold calls failed in a row
\* and a later call was rejected by the open breaker.
BreakerTripWitness ==
    /\ consec = failureThreshold
    /\ state = "OPEN"
    /\ \E i, j \in Tasks :
          /\ result[i] = Rejected(BreakerOpenError(i))
          /\ result[j].status = "fulfilled"

\* C4 (as claimed): while a call admitted as the HALF-OPEN probe is in flight,
\* no other call gets to invoke its wrapped operation, and there is never more
\* than one probe.
SingleProbe ==
    [][ /\ \A i \in Tasks : (pc[i] = "new" /\ pc'[i] = "running") => probes = {}
        /\ Cardinality(probes') <= 1
      ]_vars

\* C5 (as claimed): the probe settling decides the breaker: CLOSED with a zero
\* counter on success, OPEN with the trip time set to now on failure - also
\* when calls started before the trip settle in between (no call having been
\* admitted beside the probe).
ProbeOutcome ==
    [][ \A p \in probes :
            (crowd = {} /\ pc[p] = "running" /\ pc'[p] = "done")
            => IF result'[p].status = "fulfilled"
               THEN state' = "CLOSED" /\ failureCount' = 0
               ELSE state' = "OPEN" /\ lastFailureTime' = now
      ]_vars

(***************************************************************************)
(* ExponentialBackoff                                                      *)
(***************************************************************************)

\* error instanceof GeminiApiError
IsGeminiApiError(kind) == kind \in {"retryable", "fatal"}

\* error.isRetryable
isRetryable(kind) == kind = "retryable"

\* the catch without the isRetryable test
shouldRetryAnyGeminiError(kind, attempt) ==
    IsGeminiApiError(kind) /\ attempt < maxAttempts - 1

\* The catch of ExponentialBackoff.execute: wait and go round the loop again?
shouldRetry(kind, attempt) ==
    IsGeminiApiError(kind) /\ isRetryable(kind) /\ attempt < maxAttempts - 1

\* One pass of the loop body for task i, h being the outcomes of its earlier
\* invocations and o that of this one: the task's next place and, when
\* execute settles, how.
attemptSettles(h, i, o) ==
    IF o = "ok"
    THEN [next |-> "done", result |-> Fulfilled(ValueOf(i))]
    ELSE IF shouldRetry(o, Len(h))
         THEN [next |-> "backoff", result |-> NoResult]
         ELSE [next |-> "done", result |-> Rejected(TaskError(i, o, Len(h)))]

\* The setTimeout of the catch fires: attempt++ and the loop test; the next
\* invocation starts, or the loop ends and 'Max retry attempts reached.' is
\* thrown.
timerFires(h, i) ==
    IF Len(h) < maxAttempts
    THEN [next |-> "running", result |-> NoResult]
    ELSE [next |-> "done", result |-> Rejected(TaskError(i, "maxretry", Len(h)))]

\* retryPolicy.execute(task) is called for task i: attempt 0 is invoked.
RetryCall(i) ==
    /\ pc[i] = "new"
    /\ pc' = [pc EXCEPT ![i] = "running"]
    /\ UNCHANGED <<orchVars, semVars, cbVars, now, hist, result, poolVars, semHist, cbHist>>

\* The invocation of task i in flight settles with outcome o.
RetryAttempt(i, o) ==
    /\ pc[i] = "running"
    /\ LET a == attemptSettles(hist[i], i, o)
       IN  /\ pc' = [pc EXCEPT ![i] = a.next]
           /\ result' = [result EXCEPT ![i] = a.result]
    /\ hist' = [hist EXCEPT ![i] = Append(@, o)]
    /\ UNCHANGED <<orchVars, semVars, cbVars, now, poolVars, semHist, cbHist>>

\* The backoff delay of task i is over.
RetryTimer(i) ==
    /\ pc[i] = "backoff"
    /\ LET a == timerFires(hist[i], i)
       IN  /\ pc' = [pc EXCEPT ![i] = a.next]
           /\ result' = [result EXCEPT ![i] = a.result]
    /\ UNCHANGED <<orchVars, semVars, cbVars, now, hist, poolVars, semHist, cbHist>>

RetryNext ==
    \/ \E i \in Tasks : RetryCall(i)
    \/ \E i \in Tasks, o \in Outcomes : RetryAttempt(i, o)
    \/ \E i \in Tasks : RetryTimer(i)

RetrySpec == Init /\ [][RetryNext]_vars

\* Invocations of task i started so far.
Invocations(i) == Len(hist[i]) + (IF pc[i] = "running" THEN 1 ELSE 0)

\* C6: execute never invokes a task more than maxAttempts times; every
\* invocation but the last failed with a retryable error; an invocation that
\* resolves, or fails with a non-retryable error, or is the maxAttempts-th, is
\* the last one, and execute settles with its value or rethrows its error.
RetryBound ==
    \A i \in Tasks :
        LET h == hist[i]
            n == Len(h)
        IN  /\ Invocations(i) <= maxAttempts
            /\ \A k \in 1..n :
                  IF h[k] = "retryable" /\ k < maxAttempts
                  THEN k < n \/ pc[i] \in {"backoff", "running"}
                  ELSE /\ k = n
                       /\ pc[i] = "done"
                       /\ result[i] = IF h[k] = "ok"
                                      THEN Fulfilled(ValueOf(i))
                                      ELSE Rejected(TaskError(i, h[k], k - 1))

\* C6 witness: one task failed maxAttempts times with a retryable error and is
\* done, another was invoked once and failed with a non-retryable error, a
\* third succeeded on its last attempt.
RetryBoundWitness ==
    \E i, j, l \in Tasks :
        /\ pc[i] = "done" /\ Len(hist[i]) = maxAttempts
        /\ hist[i][maxAttempts] = "retryable"
        /\ pc[j] = "done" /\ hist[j] \in {<<"fatal">>, <<"other">>}
        /\ pc[l] = "done" /\ Len(hist[l]) = maxAttempts
        /\ hist[l][maxAttempts] = "ok"

(***************************************************************************)
(* GeminiAnalysisPool                                                      *)
(***************************************************************************)

\* The pool while one turn of the event loop runs.
Pool == [count |-> count, queue |-> queue, cb |-> CB, pc |-> pc,
         result |-> result]

NumSubmitted == Cardinality({i \in Tasks : pc[i] # "new"})

RECURSIVE acquireAll(_, _, _)
\* tasks.map(task => this.semaphore.acquire()...): the acquire() calls, in
\* the order of the tasks lo..hi
acquireAll(s, lo, hi) ==
    IF lo > hi THEN s ELSE acquireAll(acquire(s, lo), lo + 1, hi)

\* .finally(() => this.semaphore.release()) attached with .then instead: the
\* slot is given back only when circuitBreaker.execute resolved
thenRelease(p, i, r) ==
    LET s0 == [count |-> p.count, queue |-> p.queue, granted |-> <<>>]
        s == IF r.status = "fulfilled" THEN release(s0) ELSE s0
    IN  [p |-> [p EXCEPT !.pc[i] = "done", !.result[i] = r,
                         !.count = s.count, !.queue = s.queue],
         granted |-> s.granted]

\* circuitBreaker.execute of task i settled with r: .finally(() =>
\* this.semaphore.release()) runs, then the wrapped promise settles with r.
\* granted: the waiter release() resolved, if any.
finallyRelease(p, i, r) ==
    LET s == release([count |-> p.count, queue |-> p.queue, granted |-> <<>>])
    IN  [p |-> [p EXCEPT !.pc[i] = "done", !.result[i] = r,
                         !.count = s.count, !.queue = s.queue],
         granted |-> s.granted]

RECURSIVE runCallbacksRetryingOpen(_, _)
\* The callbacks with the retry policy around the breaker, retrying the
\* breaker's rejection:
\* () => this.retryPolicy.execute(() => this.circuitBreaker.execute(task))
runCallbacksRetryingOpen(p, ready) ==
    IF ready = <<>> THEN p
    ELSE LET i == Head(ready)
             a == admit(p.cb, now)
         IN  IF a.invoke
             THEN runCallbacksRetryingOpen(
                      [p EXCEPT !.cb = a.cb, !.pc[i] = "running"], Tail(ready))
             ELSE runCallbacksRetryingOpen([p EXCEPT !.pc[i] = "backoff"],
                                           Tail(ready))

RECURSIVE runCallbacks(_, _)
\* The .then callbacks of the resolved acquire() promises, oldest first:
\* () => this.circuitBreaker.execute(() => this.retryPolicy.execute(task)).
\* The breaker rejects the call, whose slot then goes to the next waiter, or
\* attempt 0 of the task is invoked.
runCallbacks(p, ready) ==
    IF ready = <<>> THEN p
    ELSE LET i == Head(ready)
             a == admit(p.cb, now)
         IN  IF a.invoke
             THEN runCallbacks([p EXCEPT !.cb = a.cb, !.pc[i] = "running"],
                               Tail(ready))
             ELSE LET f == finallyRelease(p, i, Rejected(BreakerOpenError(i)))
                  IN  runCallbacks(f.p, Tail(ready) \o f.granted)

\* retryPolicy.execute(task i) settled with r: the try/catch of
\* CircuitBreaker.execute, the finally, and the callbacks of the waiter that
\* got the slot.
breakerSettles(p, i, r) ==
    LET cb == IF r.status = "fulfilled" THEN onSuccess(p.cb) ELSE onFailure(p.cb, now)
        f == finallyRelease([p EXCEPT !.cb = cb], i, r)
    IN  runCallbacks(f.p, f.granted)

\* Promise.all in place of Promise.allSettled: resolves when every promise is
\* fulfilled, rejects as soon as one is rejected
anyRejectedOrAllSettled(pcs, res, batch) ==
    \/ \A i \in batch.first..batch.last : pcs[i] = "done"
    \/ \E i \in batch.first..batch.last : pcs[i] = "done" /\ res[i].status = "rejected"

\* Promise.allSettled(promises) resolves when every wrapped promise of the
\* batch has settled.
allHaveSettled(pcs, res, batch) ==
    \A i \in batch.first..batch.last : pcs[i] = "done"

\* The array Promise.allSettled resolves with: one entry per task of the
\* batch, in the order of the tasks, whatever the order they settled in.
allSettled(res, batch) ==
    [k \in 1..(batch.last - batch.first + 1) |-> res[batch.first + k - 1]]

RECURSIVE successfulResultsUnshift(_)
\* successfulResults filled with unshift for push
successfulResultsUnshift(rs) ==
    IF rs = <<>> THEN <<>>
    ELSE IF Head(rs).status = "fulfilled"
         THEN successfulResultsUnshift(Tail(rs)) \o <<Head(rs).value>>
         ELSE successfulResultsUnshift(Tail(rs))

RECURSIVE successfulResults(_)
\* results.forEach: the values pushed to successfulResults
successfulResults(rs) ==
    IF rs = <<>> THEN <<>>
    ELSE IF Head(rs).status = "fulfilled"
         THEN <<Head(rs).value>> \o successfulResults(Tail(rs))
         ELSE successfulResults(Tail(rs))

RECURSIVE errors(_)
\* results.forEach: the reasons pushed to errors
errors(rs) ==
    IF rs = <<>> THEN <<>>
    ELSE IF Head(rs).status = "rejected"
         THEN <<Head(rs).reason>> \o errors(Tail(rs))
         ELSE errors(Tail(rs))

\* new AggregateAnalysisError(errors)
AggregateAnalysisError(errs) ==
    [name |-> "AggregateAnalysisError",
     message |-> <<"Multiple analysis errors occurred:", Len(errs), "total.">>,
     errors |-> errs]

\* executeWithBackpressure after the await, rs being the settled results:
\* what the call throws or returns
executeWithBackpressure(rs) ==
    IF Len(errors(rs)) > 0
    THEN [kind |-> "throw", error |-> AggregateAnalysisError(errors(rs))]
    ELSE [kind |-> "return", value |-> successfulResults(rs)]

\* The awaits of the executeWithBackpressure calls that can resume do.
resumeAwaits(out, bs, p) ==
    [b \in DOMAIN out |->
        IF out[b].kind = "pending" /\ allHaveSettled(p.pc, p.result, bs[b])
        THEN executeWithBackpressure(allSettled(p.result, bs[b]))
        ELSE out[b]]

\* The turn ends with the pool as p.
PoolBecomes(p, bs, out) ==
    /\ count' = p.count
    /\ queue' = p.queue
    /\ state' = p.cb.state
    /\ failureCount' = p.cb.failureCount
    /\ lastFailureTime' = p.cb.lastFailureTime
    /\ pc' = p.pc
    /\ result' = p.result
    /\ overtaken' = overtaken \cup
            {b \in DOMAIN bs :
                \E i, j \in bs[b].first..bs[b].last :
                    j < i /\ p.pc[i] = "done" /\ p.pc[j] # "done"}
    /\ batches' = bs
    /\ outcome' = resumeAwaits(out, bs, p)

\* executeWithBackpressure(tasks) is called with n tasks.
Submit(n) ==
    /\ Len(batches) < MaxBatches
    /\ NumSubmitted + n <= PoolTasks
    /\ LET lo == NumSubmitted + 1
           hi == NumSubmitted + n
           s == acquireAll(Sem, lo, hi)
           p0 == [Pool EXCEPT !.count = s.count, !.queue = s.queue,
                              !.pc = [i \in Tasks |->
                                        IF i \in lo..hi THEN "waiting" ELSE pc[i]]]
       IN  PoolBecomes(runCallbacks(p0, s.granted),
                       Append(batches, [first |-> lo, last |-> hi]),
                       Append(outcome, [kind |-> "pending"]))
    /\ UNCHANGED <<orchVars, now, hist, semHist, cbHist>>

\* The invocation of task i in flight settles with outcome o.
AttemptSettles(i, o) ==
    /\ pc[i] = "running"
    /\ hist' = [hist EXCEPT ![i] = Append(@, o)]
    /\ LET a == attemptSettles(hist[i], i, o)
       IN  IF a.next = "done"
           THEN PoolBecomes(breakerSettles(Pool, i, a.result), batches, outcome)
           ELSE /\ pc' = [pc EXCEPT ![i] = a.next]
                /\ UNCHANGED <<semVars, cbVars, result, poolVars>>
    /\ UNCHANGED <<orchVars, now, semHist, cbHist>>

\* The backoff delay of task i is over.
BackoffEnds(i) ==
    /\ pc[i] = "backoff"
    /\ LET a == timerFires(hist[i], i)
       IN  IF a.next = "done"
           THEN PoolBecomes(breakerSettles(Pool, i, a.result), batches, outcome)
           ELSE /\ pc' = [pc EXCEPT ![i] = a.next]
                /\ UNCHANGED <<semVars, cbVars, result, poolVars>>
    /\ UNCHANGED <<orchVars, now, hist, semHist, cbHist>>

\* Time passes.  The pool reads the clock in CircuitBreaker.execute while the
\* breaker is OPEN, to compare it with lastFailureTime, and nowhere else: only
\* the time that passes while OPEN, up to the timeout, makes a difference.
PoolTick ==
    /\ state = "OPEN"
    /\ now - lastFailureTime <= timeout
    /\ Tick

\* What the invocation of a task of the pool does.
PoolOutcomes == {"ok", "retryable", "fatal"}

PoolNext ==
    \/ \E n \in 0..PoolTasks : Submit(n)
    \/ \E i \in Tasks, o \in PoolOutcomes : AttemptSettles(i, o)
    \/ \E i \in Tasks : BackoffEnds(i)
    \/ PoolTick

PoolSpec == Init /\ [][PoolNext]_vars

BatchTasks(b) == batches[b].first .. batches[b].last

\* The task's own last invocation resolved.
Succeeded(i) == hist[i] # <<>> /\ hist[i][Len(hist[i])] = "ok"

\* C7: a call of executeWithBackpressure all of whose tasks succeeded returns
\* one value per task, the k-th being the value of the k-th task, in whatever
\* order the tasks completed.
ResultOrder ==
    \A b \in 1..Len(batches) :
        (outcome[b].kind # "pending" /\ \A i \in BatchTasks(b) : Succeeded(i))
        => /\ outcome[b].kind = "return"
           /\ Len(outcome[b].value) = batches[b].last - batches[b].first + 1
           /\ \A k \in 1..Len(outcome[b].value) :
                 outcome[b].value[k] = ValueOf(batches[b].first + k - 1)

\* C7 witness: a call returned two or more values after a task of it had
\* completed before an earlier task.
ResultOrderWitness ==
    \E b \in overtaken :
        /\ outcome[b].kind = "return"
        /\ Len(outcome[b].value) >= 2

\* C8: a call settles only when all its wrapped tasks have settled, and if K
\* >= 1 of them rejected it throws an AggregateAnalysisError with K errors:
\* the reasons of the rejected tasks, in the order of the tasks.
AggregateIsolation ==
    \A b \in 1..Len(batches) :
        outcome[b].kind # "pending" =>
            LET rej == {i \in BatchTasks(b) : result[i].status = "rejected"}
            IN  /\ \A i \in BatchTasks(b) : pc[i] = "done"
                /\ rej # {} =>
                    /\ outcome[b].kind = "throw"
                    /\ outcome[b].error.name = "AggregateAnalysisError"
                    /\ LET es == outcome[b].error.errors
                       IN  /\ Len(es) = Cardinality(rej)
                           /\ \A k \in 1..Len(es) :
                                 /\ es[k].task \in rej
                                 /\ es[k] = result[es[k].task].reason
                           /\ \A k, l \in 1..Len(es) :
                                 k < l => es[k].task < es[l].task

\* C8 witness: a call of three or more tasks threw with two errors, one task
\* having been fulfilled and one having settled before an earlier one.
AggregateIsolationWitness ==
    \E b \in overtaken :
        /\ outcome[b].kind = "throw"
        /\ Len(outcome[b].error.errors) = 2
        /\ \E i \in BatchTasks(b) : result[i].status = "fulfilled"

\* What a settled call hands to its caller: the values it returns, or the
\* errors of the AggregateAnalysisError it throws (the pool keeps no results).
Handed(o) ==
    IF o.kind = "return" THEN {o.value[k] : k \in 1..Len(o.value)}
    ELSE IF o.kind = "throw"
         THEN {o.error.errors[k] : k \in 1..Len(o.error.errors)}
         ELSE {}

\* C9 (as claimed): when some but not all tasks of a call failed, the value of
\* every fulfilled task is among what the call hands to its caller.
NoLostSuccesses ==
    \A b \in 1..Len(batches) :
        LET rej == {i \in BatchTasks(b) : result[i].status = "rejected"}
        IN  (outcome[b].kind # "pending" /\ rej # {} /\ rej # BatchTasks(b))
            => \A i \in BatchTasks(b) \ rej : result[i].value \in Handed(outcome[b])

\* C10: the slots taken are those of the tasks in flight, the queue holds the
\* waiting tasks, and so once every submitted task has settled the semaphore
\* has no holder and no waiter: each slot was released once, whether its task
\* succeeded, failed after its retries or was rejected by the open breaker.
UnconditionalRelease ==
    /\ count = Cardinality({i \in Tasks : pc[i] \in {"running", "backoff"}})
    /\ {queue[k] : k \in 1..Len(queue)} = {i \in Tasks : pc[i] = "waiting"}
    /\ (\A i \in Tasks : pc[i] \in {"new", "done"}) => (count = 0 /\ queue = <<>>)

\* C10 witness: every call has settled and no slot is held, after one task was
\* rejected by the open breaker and another failed on its last retry.
UnconditionalReleaseWitness ==
    /\ Len(batches) = MaxBatches
    /\ \A b \in 1..Len(batches) : outcome[b].kind # "pending"
    /\ count = 0
    /\ \E i \in Tasks : result[i] = Rejected(BreakerOpenError(i))
    /\ \E i \in Tasks : result[i] = Rejected(TaskError(i, "retryable", maxAttempts - 1))

(***************************************************************************)
(* useProjectOrchestrator: the reducer                                     *)
(***************************************************************************)

\* ---- files ----
\* A File is [name, type, size].  Its name is [base, page, ext]: base.ext, or
\* base_page_<page>.ext for a page image made by convertPdfToImages; its type
\* is <<major, minor>> for major/minor; its size is in MB.
FileNamed(base, ext, major, minor) ==
    [name |-> [base |-> base, page |-> 0, ext |-> ext],
     type |-> <<major, minor>>, size |-> 1]

SfMd == FileNamed("sf", "md", "text", "markdown")
EmailTxt == FileNamed("email", "txt", "text", "plain")
PhotoJpg == FileNamed("photo", "jpg", "image", "jpeg")
ReportPdf == FileNamed("report", "pdf", "application", "pdf")
NotesDocx == FileNamed("notes", "docx", "application", "msword")

\* file.type.startsWith('image/') || /\.(jpg|jpeg|png|tiff)$/i.test(file.name)
isImageFile(f) ==
    f.type[1] = "image" \/ f.name.ext \in {"jpg", "jpeg", "png", "tiff"}

\* file.name.endsWith('.md') || isImageFile(file)
isSalesforceFile(f) == f.name.ext = "md" \/ isImageFile(f)

\* /\.(pdf|txt|md|csv|xls|html|doc|ppt|json|eml)$/i.test(file.name) || isImageFile(file)
isEmailFile(f) ==
    \/ f.name.ext \in {"pdf", "txt", "md", "csv", "xls", "html", "doc", "ppt",
                       "json", "eml"}
    \/ isImageFile(f)

\* isPdfFile of utils/validation: a PDF by its type or by its extension
isPdfFile(f) == f.type = <<"application", "pdf">> \/ f.name.ext = "pdf"

\* ---- lifecycle ----
\* enum ProjectLifecycle, MERGING_RESULTS being a member in one source file
Lifecycle ==
    {"IDLE", "VALIDATING", "CONVERTING_PDFS", "ANALYZING_PARALLEL",
     "MERGING_RESULTS", "AWAITING_REVIEW", "CREATING_PROJECT", "COMPLETE",
     "ERROR"}

\* { ...record, [key]: v }
Put(m, key, v) ==
    [k \in (DOMAIN m) \cup {key} |-> IF k = key THEN v ELSE m[k]]

RECURSIVE initialStatuses(_, _)
\* state.context.files.reduce((acc, file) => { acc[file.name] = ...; return acc }, {})
initialStatuses(fs, st) ==
    IF fs = <<>> THEN <<>>
    ELSE Put(initialStatuses(SubSeq(fs, 1, Len(fs) - 1), st), fs[Len(fs)].name, st)

\* files.some(isPdfFile)
hasPdfs(fs) == \E k \in 1..Len(fs) : isPdfFile(fs[k])

\* ---- orchestratorReducer, one operator per case of switch (state.value) ----
\* s is the state [value, context], e the event, r the source file.

\* case IDLE
reduceIdle(s, e) ==
    IF e.type = "SUBMIT_FILES"
    THEN [value |-> "VALIDATING",
          context |-> [initialContext EXCEPT !.files = e.files, !.error = None]]
    ELSE s

\* case VALIDATING with SET_ERROR that keeps the rejected files
\* (without files: [])
reduceValidatingKeepsFiles(r, s, e) ==
    IF e.type = "VALIDATION_SUCCESS"
    THEN [value |-> IF hasPdfs(s.context.files)
                    THEN "CONVERTING_PDFS" ELSE "ANALYZING_PARALLEL",
          context |-> [s.context EXCEPT !.fileProcessingStatus =
                          initialStatuses(s.context.files,
                              IF r = Hooks THEN "queued" ELSE "processing")]]
    ELSE IF e.type = "SET_ERROR"
         THEN [value |-> "ERROR",
               context |-> [s.context EXCEPT !.error = Some(e.error)]]
         ELSE s

\* case VALIDATING
reduceValidating(r, s, e) ==
    IF e.type = "VALIDATION_SUCCESS"
    THEN [value |-> IF hasPdfs(s.context.files)
                    THEN "CONVERTING_PDFS" ELSE "ANALYZING_PARALLEL",
          context |-> [s.context EXCEPT !.fileProcessingStatus =
                          initialStatuses(s.context.files,
                              IF r = Hooks THEN "queued" ELSE "processing")]]
    ELSE IF e.type = "SET_ERROR"
         THEN [value |-> "ERROR",
               context |-> [s.context EXCEPT !.error = Some(e.error),
                                             !.files = <<>>]]
         ELSE s

\* if (event.type === 'UPDATE_STATUS'), in CONVERTING_PDFS and ANALYZING_PARALLEL
updateStatus(s, e) ==
    [s EXCEPT !.context.fileProcessingStatus =
                  Put(@, e.payload.fileName, e.payload.status)]

\* case CONVERTING_PDFS with SET_ERROR that does not store the message
\* (without error: event.error)
reduceConvertingPdfsDropsError(s, e) ==
    IF e.type = "PDF_CONVERSION_COMPLETE"
    THEN [value |-> "ANALYZING_PARALLEL",
          context |-> [s.context EXCEPT !.convertedImagesFromPdfs = e.images]]
    ELSE IF e.type = "SET_ERROR"
         THEN [value |-> "ERROR", context |-> s.context]
         ELSE IF e.type = "UPDATE_STATUS" THEN updateStatus(s, e) ELSE s

\* case CONVERTING_PDFS
reduceConvertingPdfs(s, e) ==
    IF e.type = "PDF_CONVERSION_COMPLETE"
    THEN [value |-> "ANALYZING_PARALLEL",
          context |-> [s.context EXCEPT !.convertedImagesFromPdfs = e.images]]
    ELSE IF e.type = "SET_ERROR"
         THEN [value |-> "ERROR",
               context |-> [s.context EXCEPT !.error = Some(e.error)]]
         ELSE IF e.type = "UPDATE_STATUS" THEN updateStatus(s, e) ELSE s

\* payload.imageData && payload.imageData.length > 0
hasImagesToReview(payload) == Len(payload.imageData) > 0

\* case ANALYZING_PARALLEL whose ANALYSIS_COMPLETE never asks for a review
\* (hasImagesToReview taken as false)
reduceAnalyzingParallelSkipsReview(r, s, e) ==
    IF e.type = "UPDATE_STATUS" THEN updateStatus(s, e)
    ELSE IF e.type = "ANALYSIS_COMPLETE"
         THEN IF r = Hooks
              THEN [value |-> "CREATING_PROJECT",
                    context |-> [s.context EXCEPT
                        !.analysisPayload = Some(e.payload),
                        !.finalImages = Some(<<>>)]]
              ELSE [value |-> "MERGING_RESULTS",
                    context |-> [s.context EXCEPT
                        !.analysisPayload = Some(e.payload)]]
         ELSE IF e.type = "SET_ERROR"
              THEN [value |-> "ERROR",
                    context |-> [s.context EXCEPT !.error = Some(e.error)]]
              ELSE s

\* case ANALYZING_PARALLEL
reduceAnalyzingParallel(r, s, e) ==
    IF e.type = "UPDATE_STATUS" THEN updateStatus(s, e)
    ELSE IF e.type = "ANALYSIS_COMPLETE"
         THEN IF r = Hooks
              THEN [value |-> IF hasImagesToReview(e.payload)
                              THEN "AWAITING_REVIEW" ELSE "CREATING_PROJECT",
                    context |-> [s.context EXCEPT
                        !.analysisPayload = Some(e.payload),
                        !.finalImages = IF hasImagesToReview(e.payload)
                                        THEN None ELSE Some(<<>>)]]
              ELSE [value |-> "MERGING_RESULTS",
                    context |-> [s.context EXCEPT
                        !.analysisPayload = Some(e.payload)]]
         ELSE IF e.type = "SET_ERROR"
              THEN [value |-> "ERROR",
                    context |-> [s.context EXCEPT !.error = Some(e.error)]]
              ELSE s

\* case MERGING_RESULTS: no test of the event
reduceMergingResults(s, e) ==
    IF s.context.analysisPayload # None
       /\ hasImagesToReview(s.context.analysisPayload[1])
    THEN [s EXCEPT !.value = "AWAITING_REVIEW"]
    ELSE [s EXCEPT !.value = "CREATING_PROJECT",
                   !.context.finalImages = Some(<<>>)]

\* case AWAITING_REVIEW with CONFIRM_REVIEW that drops the confirmed images
\* (finalImages: [] for finalImages: event.images)
reduceAwaitingReviewDropsImages(s, e) ==
    IF e.type = "CONFIRM_REVIEW"
    THEN [s EXCEPT !.value = "CREATING_PROJECT",
                   !.context.finalImages = Some(<<>>)]
    ELSE s

\* case AWAITING_REVIEW, the first of the two
reduceAwaitingReview(s, e) ==
    IF e.type = "CONFIRM_REVIEW"
    THEN [s EXCEPT !.value = "CREATING_PROJECT",
                   !.context.finalImages = Some(e.images)]
    ELSE s

\* case CREATING_PROJECT
reduceCreatingProject(s, e) ==
    IF e.type = "PROJECT_CREATED"
    THEN [s EXCEPT !.value = "COMPLETE",
                   !.context.newlyCreatedProject = Some(e.project)]
    ELSE s

\* case COMPLETE with RESET / CANCEL that only goes back to IDLE
\* ({ ...state, value: IDLE } for initialState)
reduceCompleteOrReviewKeepsContext(s, e) ==
    IF e.type \in {"RESET", "CANCEL"} THEN [s EXCEPT !.value = "IDLE"] ELSE s

\* case COMPLETE: case AWAITING_REVIEW:
reduceCompleteOrReview(s, e) ==
    IF e.type \in {"RESET", "CANCEL"} THEN initialState ELSE s

\* case ERROR with CANCEL / RESET that only goes back to IDLE
\* ({ ...state, value: IDLE } for initialState)
reduceErrorKeepsContext(s, e) ==
    IF e.type = "SUBMIT_FILES"
    THEN [value |-> "VALIDATING",
          context |-> [initialContext EXCEPT !.files = e.files]]
    ELSE IF e.type \in {"RESET", "CANCEL"} THEN [s EXCEPT !.value = "IDLE"] ELSE s

\* case ERROR with SUBMIT_FILES that spreads the old context
\* ({ ...state.context, files } for { ...initialState.context, files })
reduceErrorSpreadsContext(s, e) ==
    IF e.type = "SUBMIT_FILES"
    THEN [value |-> "VALIDATING",
          context |-> [s.context EXCEPT !.files = e.files]]
    ELSE IF e.type \in {"RESET", "CANCEL"} THEN initialState ELSE s

\* case ERROR
reduceError(s, e) ==
    IF e.type = "SUBMIT_FILES"
    THEN [value |-> "VALIDATING",
          context |-> [initialContext EXCEPT !.files = e.files]]
    ELSE IF e.type \in {"RESET", "CANCEL"} THEN initialState ELSE s

\* switch (state.value): the first case clause equal to state.value is
\* entered, so AWAITING_REVIEW enters its first clause and leaves the switch
\* at that clause's break.
orchestratorReducer(r, s, e) ==
    IF s.value = "IDLE" THEN reduceIdle(s, e)
    ELSE IF s.value = "VALIDATING" THEN reduceValidating(r, s, e)
    ELSE IF s.value = "CONVERTING_PDFS" THEN reduceConvertingPdfs(s, e)
    ELSE IF s.value = "ANALYZING_PARALLEL" THEN reduceAnalyzingParallel(r, s, e)
    ELSE IF s.value = "MERGING_RESULTS" /\ r = WithMerging
         THEN reduceMergingResults(s, e)
    ELSE IF s.value = "AWAITING_REVIEW" THEN reduceAwaitingReview(s, e)
    ELSE IF s.value = "CREATING_PROJECT" THEN reduceCreatingProject(s, e)
    ELSE IF s.value \in {"COMPLETE", "AWAITING_REVIEW"}
         THEN reduceCompleteOrReview(s, e)
    ELSE IF s.value = "ERROR" THEN reduceError(s, e)
    ELSE s

\* The state the hook holds.
State == [value |-> value, context |-> context]

RECURSIVE reduceAll(_, _, _)
\* The events es dispatched in one turn, reduced in the order of dispatch.
reduceAll(r, s, es) ==
    IF es = <<>> THEN s
    ELSE reduceAll(r, orchestratorReducer(r, s, Head(es)), Tail(es))

RECURSIVE pathAll(_, _, _, _)
\* The values taken while es are reduced, after those of p; an accepted
\* SUBMIT_FILES starts the path again.
pathAll(r, p, s, es) ==
    IF es = <<>> THEN p
    ELSE LET s1 == orchestratorReducer(r, s, Head(es))
             p1 == IF s1.value = s.value THEN p
                   ELSE IF Head(es).type = "SUBMIT_FILES"
                        THEN <<s.value, s1.value>>
                        ELSE Append(p, s1.value)
         IN  pathAll(r, p1, s1, Tail(es))

\* dispatch(e) for each e of es, in order.
Dispatched(es) ==
    \E s1 \in {reduceAll(revision, State, es)} :
        /\ value' = s1.value
        /\ context' = s1.context
        /\ path' = pathAll(revision, path, State, es)
        /\ sent' = IF s1 = State THEN sent ELSE es

\* ---- the reducer on its own: any event at any time ----
\* the file convertPdfToImages makes of page i of pdf
PageImage(pdf, i) ==
    [name |-> [base |-> pdf.name.base, page |-> i, ext |-> "jpeg"],
     type |-> <<"image", "jpeg">>, size |-> 1]

Batches ==
    {<<SfMd, EmailTxt>>, <<SfMd, EmailTxt, PhotoJpg>>, <<ReportPdf, EmailTxt>>,
     <<SfMd, ReportPdf>>, <<NotesDocx>>, <<>>}

\* An AnalysisPayload whose imageData are the analyses of imgs.
PayloadOf(text, imgs, sfNames, emailNames) ==
    [textData |-> text, imageData |-> imgs,
     sourceFiles |-> [salesforceFileNames |-> sfNames,
                      emailFileNames |-> emailNames]]

\* A ProjectImage the review modal confirms.
ProjectImageOf(f) == [fileName |-> f.name, selected |-> TRUE]

Events ==
    {[type |-> "SUBMIT_FILES", files |-> b] : b \in Batches}
    \cup {[type |-> t] : t \in {"VALIDATION_SUCCESS", "START_ANALYSIS",
                                "CANCEL", "RESET"}}
    \cup {[type |-> "PDF_CONVERSION_COMPLETE", images |-> i] :
              i \in {<<>>, <<PageImage(ReportPdf, 1)>>}}
    \cup {[type |-> "UPDATE_STATUS",
           payload |-> [fileName |-> SfMd.name, status |-> st]] :
              st \in {"processing", "error"}}
    \cup {[type |-> "ANALYSIS_COMPLETE", payload |-> PayloadOf(<<>>, i, <<>>, <<>>)] :
              i \in {<<>>, <<PhotoJpg.name>>}}
    \cup {[type |-> "CONFIRM_REVIEW", images |-> i] :
              i \in {<<>>, <<ProjectImageOf(PhotoJpg)>>}}
    \cup {[type |-> "PROJECT_CREATED", project |-> [name |-> "Project"]],
          [type |-> "SET_ERROR", error |-> <<[line |-> "error"]>>]}

\* Some caller dispatches e.
Dispatch(e) ==
    /\ Dispatched(<<e>>)
    /\ UNCHANGED <<semVars, cbVars, now, taskVars, poolVars, semHist, cbHist,
                   revision, effect, runs, faults, submits, called, mergeVars>>

ReducerNext == \E e \in Events : Dispatch(e)

ReducerInit == Constructed /\ revision \in Revisions /\ NoMerge

ReducerSpec == ReducerInit /\ [][ReducerNext]_vars

\* The rows (state, event) of the transition table.
TableRow(v, t) ==
    \/ v = "IDLE" /\ t = "SUBMIT_FILES"
    \/ v = "VALIDATING" /\ t \in {"VALIDATION_SUCCESS", "SET_ERROR"}
    \/ v = "CONVERTING_PDFS"
          /\ t \in {"PDF_CONVERSION_COMPLETE", "SET_ERROR", "UPDATE_STATUS"}
    \/ v = "ANALYZING_PARALLEL"
          /\ t \in {"UPDATE_STATUS", "ANALYSIS_COMPLETE", "SET_ERROR"}
    \/ v = "AWAITING_REVIEW" /\ t \in {"CONFIRM_REVIEW", "CANCEL", "RESET"}
    \/ v = "COMPLETE" /\ t \in {"CANCEL", "RESET"}
    \/ v = "CREATING_PROJECT" /\ t = "PROJECT_CREATED"
    \/ v = "ERROR" /\ t \in {"SUBMIT_FILES", "CANCEL", "RESET"}

\* C12 (as claimed): an event that is no row of the table for the current
\* state leaves the value and every field of the context as they were.
ReducerTotality ==
    \A e \in Events :
        ~TableRow(value, e.type) => orchestratorReducer(revision, State, e) = State

\* C13 (as claimed): in AWAITING_REVIEW, CANCEL or RESET leads to IDLE with
\* every field of the context at its initial value.
CancelFromReview ==
    value = "AWAITING_REVIEW" =>
        \A t \in {"CANCEL", "RESET"} :
            orchestratorReducer(revision, State, [type |-> t]) =
                [value |-> "IDLE", context |-> initialContext]

\* The context has every field at its initial value but files, which is fs.
FreshContext(c, fs) ==
    /\ c.files = fs
    /\ c.convertedImagesFromPdfs = <<>>
    /\ DOMAIN c.fileProcessingStatus = {}
    /\ c.error = None
    /\ c.analysisPayload = None
    /\ c.finalImages = None
    /\ c.newlyCreatedProject = None

\* C14: in COMPLETE and in ERROR, CANCEL or RESET yields the initial state:
\* IDLE, no files, no converted images, no statuses, and error,
\* analysisPayload, finalImages and newlyCreatedProject null.
ResetDiscardsRun ==
    value \in {"COMPLETE", "ERROR"} =>
        \A t \in {"CANCEL", "RESET"} :
            LET s1 == orchestratorReducer(revision, State, [type |-> t])
            IN  s1.value = "IDLE" /\ FreshContext(s1.context, <<>>)

\* C14 witness: RESET took the machine from COMPLETE to IDLE.
ResetDiscardsRunWitness ==
    /\ Len(path) >= 2
    /\ path[Len(path) - 1] = "COMPLETE"
    /\ path[Len(path)] = "IDLE"
    /\ value = "IDLE"
    /\ sent = <<[type |-> "RESET"]>>

\* C19: in ERROR, SUBMIT_FILES of any batch leads to VALIDATING with files
\* the new batch and every other field of the context at its initial value,
\* whatever the context of the failed run held.
NoDeadEndInError ==
    value = "ERROR" =>
        \A b \in Batches :
            LET s1 == orchestratorReducer(revision, State,
                                          [type |-> "SUBMIT_FILES", files |-> b])
            IN  s1.value = "VALIDATING" /\ FreshContext(s1.context, b)

\* C19 witness: a batch was submitted in ERROR and is being validated.
NoDeadEndInErrorWitness ==
    /\ path = <<"ERROR", "VALIDATING">>
    /\ value = "VALIDATING"
    /\ Len(sent) = 1 /\ sent[1].type = "SUBMIT_FILES"
    /\ context.files = sent[1].files
    /\ Len(context.files) >= 2

(***************************************************************************)
(* useProjectOrchestrator: the effects of hooks/useProjectOrchestrator.ts  *)
(*                                                                         *)
(* Every action is one turn of the event loop.  A render whose value       *)
(* differs from the one before schedules the effect of the new value; it   *)
(* runs before any further event is handled.  A status is modelled by its  *)
(* state ('queued', 'processing', 'success', 'error').                     *)
(***************************************************************************)

UpdateStatus(name, st) ==
    [type |-> "UPDATE_STATUS", payload |-> [fileName |-> name, status |-> st]]

SetError(msg) == [type |-> "SET_ERROR", error |-> msg]

NotPdf(f) == ~isPdfFile(f)
ImageNotPdf(f) == isImageFile(f) /\ ~isPdfFile(f)

\* runAnalysis: the files of the three task lists
analysisSalesforceFiles(c) == SelectSeq(SelectSeq(c.files, isSalesforceFile), NotPdf)
\* analysisEmailFiles without .filter(f => !isPdfFile(f))
analysisEmailFilesWithPdfs(c) == SelectSeq(c.files, isEmailFile)
analysisEmailFiles(c) == SelectSeq(SelectSeq(c.files, isEmailFile), NotPdf)
analysisImageFiles(c) == SelectSeq(c.files, ImageNotPdf) \o c.convertedImagesFromPdfs

TasksFor(fs, role) == [k \in 1..Len(fs) |-> [file |-> fs[k].name, role |-> role]]

\* salesforceTasks, emailTasks, imageProcessingTasks, in the order they are
\* handed to the pool
analysisTasks(c) ==
    TasksFor(analysisSalesforceFiles(c), "salesforce")
    \o TasksFor(analysisEmailFiles(c), "email")
    \o TasksFor(analysisImageFiles(c), "image")

\* The tasks of the three executeWithBackpressure calls.
analysisBatches(c) ==
    LET a == Len(analysisSalesforceFiles(c))
        b == Len(analysisEmailFiles(c))
        d == Len(analysisImageFiles(c))
    IN  <<[first |-> 1, last |-> a],
          [first |-> a + 1, last |-> a + b],
          [first |-> a + b + 1, last |-> a + b + d]>>

\* new GeminiAnalysisPool({ maxConcurrent }) and the three
\* executeWithBackpressure calls: every acquire(), then the callbacks of the
\* acquire() promises that were resolved at once.
newPool(n) ==
    LET s == acquireAll([count |-> 0, queue |-> <<>>, granted |-> <<>>], 1, n)
        p0 == [count |-> s.count, queue |-> s.queue,
               cb |-> [state |-> "CLOSED", failureCount |-> 0,
                       lastFailureTime |-> 0],
               pc |-> [i \in 1..n |-> "waiting"],
               result |-> [i \in 1..n |-> NoResult]]
    IN  runCallbacks(p0, s.granted)

\* The tasks invoked in the turn that took the pool from p0 to p1, in the
\* order of their callbacks.
Invoked(p0, p1) ==
    LET S == {i \in DOMAIN p1.pc : p0.pc[i] # "running" /\ p1.pc[i] = "running"}
        RECURSIVE Up(_)
        Up(i) == IF i > Len(p1.pc) THEN <<>>
                 ELSE (IF i \in S THEN <<i>> ELSE <<>>) \o Up(i + 1)
    IN  Up(1)

\* updateStatus(file.name, { state: 'processing' }) of each task of is
Processing(tasks, is) ==
    [k \in 1..Len(is) |-> UpdateStatus(tasks[is[k]].file, "processing")]

\* the two awaits of file.text(): is a preview read?
readsPreview(c) ==
    LET sf == analysisSalesforceFiles(c)
        em == analysisEmailFiles(c)
    IN  \/ Len(sf) = 1 /\ sf[1].name.ext = "md"
        \/ Len(em) = 1 /\ em[1].name.ext \in {"eml", "txt"}

\* The payload of ANALYSIS_COMPLETE: the merged text results, one image
\* analysis per image result, and the names of the source files.
payloadOf(run) ==
    LET c == run.context
        names(fs) == [k \in 1..Len(fs) |-> fs[k].name]
        im == run.out[3].value
    IN  PayloadOf([salesforce |-> run.out[1].value, email |-> run.out[2].value],
                  [k \in 1..Len(im) |-> run.tasks[im[k].of].file],
                  names(SelectSeq(c.files, isSalesforceFile)),
                  names(SelectSeq(c.files, isEmailFile)))

\* runAnalysis after a turn that left its three calls as run.out: Promise.all
\* rejects with the first call that throws and the catch dispatches
\* SET_ERROR; or all three returned, and ANALYSIS_COMPLETE is dispatched,
\* after the preview reads if there are any.
joinAnalysis(run) ==
    IF run.at # "pool" THEN [run |-> run, events |-> <<>>]
    ELSE IF \E b \in 1..3 : run.out[b].kind = "throw"
         THEN [run |-> [run EXCEPT !.at = "over"],
               events |-> <<SetError(<<[line |-> "Project synthesis failed."]>>)>>]
         ELSE IF \A b \in 1..3 : run.out[b].kind = "return"
              THEN IF readsPreview(run.context)
                   THEN [run |-> [run EXCEPT !.at = "preview"], events |-> <<>>]
                   ELSE [run |-> [run EXCEPT !.at = "over"],
                         events |-> <<[type |-> "ANALYSIS_COMPLETE",
                                       payload |-> payloadOf(run)]>>]
              ELSE [run |-> run, events |-> <<>>]

\* runAnalysis(), called with the context of the render: the run it starts
\* and the events dispatched before the turn ends.
runAnalysis(c) ==
    LET ts == analysisTasks(c)
        bs == analysisBatches(c)
        p == newPool(Len(ts))
        idle == [p EXCEPT !.pc = [i \in DOMAIN p.pc |-> "waiting"]]
        run == [kind |-> "analysis", context |-> c, tasks |-> ts, batches |-> bs,
                pool |-> p, hist |-> [i \in 1..Len(ts) |-> <<>>],
                out |-> resumeAwaits([b \in 1..3 |-> [kind |-> "pending"]], bs, p),
                at |-> "pool"]
        j == joinAnalysis(run)
    IN  [run |-> j.run, events |-> Processing(ts, Invoked(idle, p)) \o j.events]

\* The pool of a run went from p0 to p1 in a turn that began with events ev.
afterPoolTurn(run, p1, ev) ==
    LET run1 == [run EXCEPT !.pool = p1,
                            !.out = resumeAwaits(run.out, run.batches, p1)]
        j == joinAnalysis(run1)
    IN  [run |-> j.run,
         events |-> ev \o Processing(run.tasks, Invoked(run.pool, p1)) \o j.events]

\* ---- validation ----
MAX_SALESFORCE_FILE_SIZE_MB == 20
MAX_EMAIL_FILE_SIZE_MB == 25
MAX_IMAGE_FILE_SIZE_MB == 10
MAX_TOTAL_FILES == 10
MAX_SALESFORCE_FILES == 5
MAX_EMAIL_FILES == 5
MAX_IMAGE_FILES == 10

RECURSIVE sizeErrors(_)
\* for (const file of prospectiveFiles): the lines pushed for oversized files
sizeErrors(fs) ==
    IF fs = <<>> THEN <<>>
    ELSE LET f == Head(fs)
         IN  (IF isSalesforceFile(f) /\ f.size > MAX_SALESFORCE_FILE_SIZE_MB
              THEN <<[line |-> "SF File > MB", file |-> f.name]>> ELSE <<>>)
             \o (IF isEmailFile(f) /\ f.size > MAX_EMAIL_FILE_SIZE_MB
                 THEN <<[line |-> "Email File > MB", file |-> f.name]>> ELSE <<>>)
             \o (IF isImageFile(f) /\ ~isPdfFile(f) /\ f.size > MAX_IMAGE_FILE_SIZE_MB
                 THEN <<[line |-> "Image > MB", file |-> f.name]>> ELSE <<>>)
             \o sizeErrors(Tail(fs))

\* The VALIDATING effect stopping at the first check that fails
\* (a return after the first errors.push)
validationErrorsFirstOnly(fs) ==
    LET sf == SelectSeq(fs, isSalesforceFile)
        em == SelectSeq(fs, isEmailFile)
        im == SelectSeq(fs, isImageFile)
        line(cond, text) == IF cond THEN <<[line |-> text]>> ELSE <<>>
        all == line(Len(sf) = 0 \/ Len(em) = 0,
                    "At least one Salesforce file and one email file are required.")
               \o line(Len(fs) > MAX_TOTAL_FILES, "Max files.")
               \o line(Len(sf) > MAX_SALESFORCE_FILES, "Max Salesforce files.")
               \o line(Len(em) > MAX_EMAIL_FILES, "Max email files.")
               \o line(Len(im) > MAX_IMAGE_FILES, "Max images.")
               \o sizeErrors(fs)
    IN  IF all = <<>> THEN <<>> ELSE <<all[1]>>

\* The VALIDATING effect: the lines of errors, in the order they are pushed.
validationErrors(fs) ==
    LET sf == SelectSeq(fs, isSalesforceFile)
        em == SelectSeq(fs, isEmailFile)
        im == SelectSeq(fs, isImageFile)
        line(cond, text) == IF cond THEN <<[line |-> text]>> ELSE <<>>
    IN  line(Len(sf) = 0 \/ Len(em) = 0,
             "At least one Salesforce file and one email file are required.")
        \o line(Len(fs) > MAX_TOTAL_FILES, "Max files.")
        \o line(Len(sf) > MAX_SALESFORCE_FILES, "Max Salesforce files.")
        \o line(Len(em) > MAX_EMAIL_FILES, "Max email files.")
        \o line(Len(im) > MAX_IMAGE_FILES, "Max images.")
        \o sizeErrors(fs)

\* ---- the turns ----
\* The values whose effect does something.
Effectful ==
    {"VALIDATING", "CONVERTING_PDFS", "ANALYZING_PARALLEL", "CREATING_PROJECT",
     "COMPLETE"}

\* Has the run an external call in flight, or is its async function waiting?
InFlight(run) ==
    \/ run.at # "over"
    \/ run.kind = "analysis"
          /\ \E i \in DOMAIN run.pool.pc : run.pool.pc[i] # "done"
    \/ run.kind = "pdf"
          /\ \E j \in DOMAIN run.done : run.done[j] = "running"

\* The events of es that source file r dispatches.  Only the hooks file
\* dispatches the UPDATE_STATUS of 'queued' and 'processing'; the other
\* source file reports 'success' and 'error' only.
dispatchedBy(r, es) ==
    LET Reported(e) ==
            ~(/\ e.type = "UPDATE_STATUS"
              /\ e.payload.status \in {"queued", "processing"})
    IN  IF r = Hooks THEN es ELSE SelectSeq(es, Reported)

\* A turn dispatches es and leaves the runs as rs.  A new render value
\* schedules its effect; a run that is over with nothing in flight is
\* forgotten when the pipeline starts again.
Turn(es, rs) ==
    \E ds \in {dispatchedBy(revision, es)} :
    \E s1 \in {reduceAll(revision, State, ds)} :
        /\ Dispatched(ds)
        /\ effect' = IF s1.value # value /\ s1.value \in Effectful
                     THEN "pending" ELSE "none"
        /\ runs' = IF s1.value # value /\ s1.value \in {"IDLE", "VALIDATING"}
                   THEN SelectSeq(rs, InFlight) ELSE rs

PoolUnchanged ==
    UNCHANGED <<semVars, cbVars, taskVars, poolVars, semHist, cbHist, mergeVars>>

\* submitFiles(files)
SubmitFiles(b) ==
    /\ effect = "none"
    /\ submits < MaxSubmits
    /\ submits' = IF value \in {"IDLE", "ERROR"} THEN submits + 1 ELSE submits
    /\ called' = IF value \in {"IDLE", "ERROR"} THEN <<>> ELSE called
    /\ Turn(<<[type |-> "SUBMIT_FILES", files |-> b]>>, runs)
    /\ PoolUnchanged
    /\ UNCHANGED <<now, revision, faults>>

\* confirmReview(images)
ConfirmReview(imgs) ==
    /\ effect = "none"
    /\ Turn(<<[type |-> "CONFIRM_REVIEW", images |-> imgs]>>, runs)
    /\ PoolUnchanged
    /\ UNCHANGED <<now, revision, faults, submits, called>>

\* cancel() and reset()
CancelOrReset(t) ==
    /\ effect = "none"
    /\ Turn(<<[type |-> t]>>, runs)
    /\ PoolUnchanged
    /\ UNCHANGED <<now, revision, faults, submits, called>>

\* Side-effect for VALIDATING
ValidatingEffect ==
    /\ effect = "pending"
    /\ value = "VALIDATING"
    /\ LET errs == validationErrors(context.files)
       IN  Turn(IF Len(errs) > 0 THEN <<SetError(errs)>>
                ELSE <<[type |-> "VALIDATION_SUCCESS"]>>, runs)
    /\ PoolUnchanged
    /\ UNCHANGED <<now, revision, faults, submits, called>>

\* ---- CONVERTING_PDFS ----
\* pdfsToProcess.forEach(pdf => dispatch(... 'success' ...)) and
\* convertedImageArrays.flat()
RECURSIVE pagesOf(_, _, _)
pagesOf(pdf, i, n) ==
    IF i > n THEN <<>> ELSE <<PageImage(pdf, i)>> \o pagesOf(pdf, i + 1, n)

RECURSIVE flatPages(_, _, _)
flatPages(pdfs, total, j) ==
    IF j > Len(pdfs) THEN <<>>
    ELSE pagesOf(pdfs[j], 1, total[j]) \o flatPages(pdfs, total, j + 1)

\* runPdfConversion that waits for every conversion to settle before it
\* reports a failure (Promise.allSettled for Promise.all)
joinConversionAllSettled(run) ==
    IF run.at # "all" THEN [run |-> run, events |-> <<>>]
    ELSE IF \E j \in DOMAIN run.done : run.done[j] = "running"
         THEN [run |-> run, events |-> <<>>]
         ELSE IF \E j \in DOMAIN run.done : run.done[j] = "failed"
              THEN [run |-> [run EXCEPT !.at = "over"],
                    events |-> <<SetError(<<[line |->
                        "Failed to convert one or more PDF files."]>>)>>]
              ELSE [run |-> [run EXCEPT !.at = "over"],
                    events |->
                        [j \in 1..Len(run.pdfs) |->
                            UpdateStatus(run.pdfs[j].name, "success")]
                        \o <<[type |-> "PDF_CONVERSION_COMPLETE",
                              images |-> flatPages(run.pdfs, run.total, 1)]>>]

\* runPdfConversion after a turn: Promise.all rejects with the first
\* conversion that fails and the catch dispatches SET_ERROR; or every
\* conversion resolved, each PDF gets 'success' and
\* PDF_CONVERSION_COMPLETE is dispatched.
joinConversion(run) ==
    IF run.at # "all" THEN [run |-> run, events |-> <<>>]
    ELSE IF \E j \in DOMAIN run.done : run.done[j] = "failed"
         THEN [run |-> [run EXCEPT !.at = "over"],
               events |-> <<SetError(<<[line |->
                   "Failed to convert one or more PDF files."]>>)>>]
         ELSE IF \A j \in DOMAIN run.done : run.done[j] = "ok"
              THEN [run |-> [run EXCEPT !.at = "over"],
                    events |->
                        [j \in 1..Len(run.pdfs) |->
                            UpdateStatus(run.pdfs[j].name, "success")]
                        \o <<[type |-> "PDF_CONVERSION_COMPLETE",
                              images |-> flatPages(run.pdfs, run.total, 1)]>>]
              ELSE [run |-> run, events |-> <<>>]

\* Side-effect for CONVERTING_PDFS: the files that are no PDF get 'queued',
\* and convertPdfToImages is called for each PDF, of total[j] pages.
ConvertingPdfsEffect(total) ==
    /\ effect = "pending"
    /\ value = "CONVERTING_PDFS"
    /\ LET others == SelectSeq(context.files, NotPdf)
           pdfs == SelectSeq(context.files, isPdfFile)
           run == [kind |-> "pdf", context |-> context, pdfs |-> pdfs,
                   total |-> [j \in 1..Len(pdfs) |-> total],
                   page |-> [j \in 1..Len(pdfs) |-> 0],
                   done |-> [j \in 1..Len(pdfs) |-> "running"],
                   at |-> "all"]
       IN  Turn([k \in 1..Len(others) |-> UpdateStatus(others[k].name, "queued")],
                Append(runs, run))
    /\ PoolUnchanged
    /\ UNCHANGED <<now, revision, faults, submits, called>>

\* convertPdfToImages calls onProgress for the next page of PDF j of run k.
PdfProgress(k, j) ==
    /\ effect = "none"
    /\ runs[k].kind = "pdf"
    /\ j \in DOMAIN runs[k].done
    /\ runs[k].done[j] = "running"
    /\ runs[k].page[j] < runs[k].total[j]
    /\ Turn(<<UpdateStatus(runs[k].pdfs[j].name, "processing")>>,
            [runs EXCEPT ![k].page[j] = @ + 1])
    /\ PoolUnchanged
    /\ UNCHANGED <<now, revision, faults, submits, called>>

\* convertPdfToImages of PDF j of run k resolves, all pages rendered.
PdfConverted(k, j) ==
    /\ effect = "none"
    /\ runs[k].kind = "pdf"
    /\ j \in DOMAIN runs[k].done
    /\ runs[k].done[j] = "running"
    /\ runs[k].page[j] = runs[k].total[j]
    /\ \E r \in {joinConversion([runs[k] EXCEPT !.done[j] = "ok"])} :
          Turn(r.events, [runs EXCEPT ![k] = r.run])
    /\ PoolUnchanged
    /\ UNCHANGED <<now, revision, faults, submits, called>>

\* convertPdfToImages of PDF j of run k throws: the .catch of the
\* conversion dispatches 'error' and rethrows.
PdfFails(k, j) ==
    /\ effect = "none"
    /\ faults < MaxFaults
    /\ runs[k].kind = "pdf"
    /\ j \in DOMAIN runs[k].done
    /\ runs[k].done[j] = "running"
    /\ \E r \in {joinConversion([runs[k] EXCEPT !.done[j] = "failed"])} :
           Turn(<<UpdateStatus(runs[k].pdfs[j].name, "error")>> \o r.events,
                [runs EXCEPT ![k] = r.run])
    /\ faults' = faults + 1
    /\ PoolUnchanged
    /\ UNCHANGED <<now, revision, submits, called>>

\* ---- ANALYZING_PARALLEL ----
\* Side-effect for ANALYZING_PARALLEL: runAnalysis() up to its first await.
AnalyzingParallelEffect ==
    /\ effect = "pending"
    /\ value = "ANALYZING_PARALLEL"
    /\ \E r \in {runAnalysis(context)} :
          Turn(r.events, Append(runs, r.run))
    /\ PoolUnchanged
    /\ UNCHANGED <<now, revision, faults, submits, called>>

\* The invocation in flight of task i of run k settles with outcome o: the
\* task dispatches 'success' or 'error', then the retry policy, the breaker
\* and the pool go on.
RunAttemptSettles(k, i, o) ==
    /\ effect = "none"
    /\ o # "ok" => faults < MaxFaults
    /\ runs[k].kind = "analysis"
    /\ i \in DOMAIN runs[k].pool.pc
    /\ runs[k].pool.pc[i] = "running"
    /\ \E run \in {[runs[k] EXCEPT !.hist[i] = Append(@, o)]} :
       \E a \in {attemptSettles(runs[k].hist[i], i, o)} :
       \E ev \in {<<UpdateStatus(run.tasks[i].file,
                                 IF o = "ok" THEN "success" ELSE "error")>>} :
       \E p1 \in {IF a.next = "done"
                  THEN breakerSettles(run.pool, i, a.result)
                  ELSE [run.pool EXCEPT !.pc[i] = a.next]} :
       \E r \in {afterPoolTurn(run, p1, ev)} :
          Turn(r.events, [runs EXCEPT ![k] = r.run])
    /\ faults' = IF o = "ok" THEN faults ELSE faults + 1
    /\ PoolUnchanged
    /\ UNCHANGED <<now, revision, submits, called>>

\* The backoff delay of task i of run k is over: the task is invoked again.
RunBackoffEnds(k, i) ==
    /\ effect = "none"
    /\ runs[k].kind = "analysis"
    /\ i \in DOMAIN runs[k].pool.pc
    /\ runs[k].pool.pc[i] = "backoff"
    /\ \E r \in {LET run == runs[k]
                     a == timerFires(run.hist[i], i)
                     p1 == IF a.next = "done"
                           THEN breakerSettles(run.pool, i, a.result)
                           ELSE [run.pool EXCEPT !.pc[i] = a.next]
                 IN  afterPoolTurn(run, p1, <<>>)} :
          Turn(r.events, [runs EXCEPT ![k] = r.run])
    /\ PoolUnchanged
    /\ UNCHANGED <<now, revision, faults, submits, called>>

\* The file.text() reads of run k are done, or one throws.
PreviewRead(k, ok) ==
    /\ effect = "none"
    /\ ~ok => faults < MaxFaults
    /\ runs[k].kind = "analysis"
    /\ runs[k].at = "preview"
    /\ Turn(IF ok
            THEN <<[type |-> "ANALYSIS_COMPLETE", payload |-> payloadOf(runs[k])]>>
            ELSE <<SetError(<<[line |-> "File analysis failed"]>>)>>,
            [runs EXCEPT ![k].at = "over"])
    /\ faults' = IF ok THEN faults ELSE faults + 1
    /\ PoolUnchanged
    /\ UNCHANGED <<now, revision, submits, called>>

\* ---- CREATING_PROJECT and COMPLETE ----
\* Side-effect for CREATING_PROJECT
CreatingProjectEffect ==
    /\ effect = "pending"
    /\ value = "CREATING_PROJECT"
    /\ Turn(IF context.analysisPayload = None \/ context.finalImages = None
            THEN <<>>
            ELSE <<[type |-> "PROJECT_CREATED",
                    project |-> [data |-> context.analysisPayload[1].textData,
                                 images |-> context.finalImages[1],
                                 sourceFiles |-> context.analysisPayload[1].sourceFiles]]>>,
            runs)
    /\ PoolUnchanged
    /\ UNCHANGED <<now, revision, faults, submits, called>>

\* Side-effect for COMPLETE: onSuccess(context.newlyCreatedProject)
CompleteEffect ==
    /\ effect = "pending"
    /\ value = "COMPLETE"
    /\ called' = IF context.newlyCreatedProject # None
                 THEN Append(called, context.newlyCreatedProject[1])
                 ELSE called
    /\ Turn(<<>>, runs)
    /\ PoolUnchanged
    /\ UNCHANGED <<now, revision, faults, submits>>

\* The component that uses the hook renders again and passes a new function
\* as onSuccess: of the effects only that for COMPLETE has onSuccess among
\* its dependencies, and it returns at once unless value is COMPLETE.
RenderWithNewOnSuccess ==
    /\ value = "COMPLETE" => Len(called) <= MaxRenders
    /\ effect' = IF value = "COMPLETE" THEN "pending" ELSE effect
    /\ PoolUnchanged
    /\ UNCHANGED <<now, revision, value, context, runs, path, sent, faults,
                   submits, called>>

\* Time passes while the breaker of a run is OPEN and its timeout not over
\* (the only place where a run reads the clock).
OrchTick ==
    /\ effect = "none"
    /\ \E k \in 1..Len(runs) :
          /\ runs[k].kind = "analysis"
          /\ runs[k].pool.cb.state = "OPEN"
          /\ now - runs[k].pool.cb.lastFailureTime <= timeout
          /\ \E i \in DOMAIN runs[k].pool.pc : runs[k].pool.pc[i] # "done"
    /\ Tick

\* The batches submitted after the first one.
LaterBatches == {<<SfMd, EmailTxt>>, <<NotesDocx>>}

\* The places of a file in a batch, and of a task in a run: a batch has up
\* to three files, a file up to three tasks, a PDF one task per page.
FileIds == 1..3
RunTaskIds == 1..(3 * 3 + MaxPages)

OrchNext ==
    \/ \E b \in (IF submits = 0 THEN Batches ELSE LaterBatches) : SubmitFiles(b)
    \/ \E imgs \in {<<>>, <<ProjectImageOf(PhotoJpg)>>} : ConfirmReview(imgs)
    \/ \E t \in {"CANCEL", "RESET"} : CancelOrReset(t)
    \/ ValidatingEffect
    \/ \E n \in 1..MaxPages : ConvertingPdfsEffect(n)
    \/ \E k \in 1..Len(runs), j \in FileIds : PdfProgress(k, j)
    \/ \E k \in 1..Len(runs), j \in FileIds : PdfConverted(k, j)
    \/ \E k \in 1..Len(runs), j \in FileIds : PdfFails(k, j)
    \/ AnalyzingParallelEffect
    \/ \E k \in 1..Len(runs), i \in RunTaskIds, o \in PoolOutcomes :
          RunAttemptSettles(k, i, o)
    \/ \E k \in 1..Len(runs), i \in RunTaskIds : RunBackoffEnds(k, i)
    \/ \E k \in 1..Len(runs), ok \in BOOLEAN : PreviewRead(k, ok)
    \/ CreatingProjectEffect
    \/ CompleteEffect
    \/ RenderWithNewOnSuccess
    \/ OrchTick

OrchSpec == Init /\ [][OrchNext]_vars

(***************************************************************************)
(* Properties of the orchestrator                                          *)
(***************************************************************************)

\* The analysis calls of run k that were started and have not settled.
StartedNotSettled(k) ==
    IF runs[k].kind = "analysis"
    THEN {i \in DOMAIN runs[k].pool.pc : runs[k].pool.pc[i] = "running"}
    ELSE {}

RECURSIVE CallsInFlight(_)
CallsInFlight(k) ==
    IF k = 0 THEN 0 ELSE Cardinality(StartedNotSettled(k)) + CallsInFlight(k - 1)

\* C11: in every reachable state the analysis calls started and not yet
\* settled, counted over the three groups and over every run that still has
\* calls in flight, are at most maxConcurrent (5 in runAnalysis).
AdmissionCeiling == CallsInFlight(Len(runs)) <= maxConcurrent

\* Is p the beginning of q?
IsPrefix(p, q) == Len(p) <= Len(q) /\ p = SubSeq(q, 1, Len(p))

\* The first run of a batch in which no call has thrown.
FirstRunOf(b) == path # <<>> /\ path[1] = "IDLE" /\ context.files = b /\ faults = 0

\* C15: scenario A.  While [sf.md, email.txt], submitted from IDLE, is
\* processed and every analysis call succeeds, the values rendered are the
\* beginning of IDLE, VALIDATING, ANALYZING_PARALLEL, MERGING_RESULTS,
\* CREATING_PROJECT, COMPLETE.
ScenarioA ==
    FirstRunOf(<<SfMd, EmailTxt>>)
        => IsPrefix(path, <<"IDLE", "VALIDATING", "ANALYZING_PARALLEL",
                            "MERGING_RESULTS", "CREATING_PROJECT", "COMPLETE">>)

\* The values of scenario B, in order.
ReviewedPath ==
    <<"IDLE", "VALIDATING", "ANALYZING_PARALLEL", "AWAITING_REVIEW",
      "CREATING_PROJECT", "COMPLETE">>

\* A step of the first run of [sf.md, email.txt, photo.jpg] in which no call
\* has thrown.
ScenarioBStep ==
    FirstRunOf(<<SfMd, EmailTxt, PhotoJpg>>)' =>
        /\ IsPrefix(path', ReviewedPath)
        /\ value' = "AWAITING_REVIEW" =>
              /\ context'.analysisPayload # None
              /\ Len(context'.analysisPayload[1].imageData) = 1
              /\ context'.finalImages = None
        /\ (value = "AWAITING_REVIEW" /\ value' # value) =>
              /\ Len(sent') = 1 /\ sent'[1].type = "CONFIRM_REVIEW"
              /\ value' = "CREATING_PROJECT"
              /\ context'.finalImages = Some(sent'[1].images)
        /\ value' = "COMPLETE" => context'.finalImages = context.finalImages

CategoryRequired ==
    [line |-> "At least one Salesforce file and one email file are required."]

NoEmailFile(fs) == Len(SelectSeq(fs, isEmailFile)) = 0

\* A step that leaves VALIDATING with a batch that has no email file, and
\* the runs after any step.
ScenarioCStep ==
    /\ (value = "VALIDATING" /\ value' # value /\ NoEmailFile(context.files)) =>
          /\ Len(sent') = 1 /\ sent'[1].type = "SET_ERROR"
          /\ value' = "ERROR"
          /\ context'.error # None
          /\ \E k \in 1..Len(context'.error[1]) :
                context'.error[1][k] = CategoryRequired
          /\ context'.files = <<>>
          /\ effect' = "none"
          /\ runs' = runs
    /\ \A k \in 1..Len(runs') : ~NoEmailFile(runs'[k].context.files)

\* C17: scenario C.  A batch without a file of the email category leaves
\* VALIDATING by SET_ERROR: the machine is in ERROR, the error has the line
\* about the required categories, context.files is empty, and no PDF
\* conversion or analysis is ever started with such a batch.
ScenarioC == [][ScenarioCStep]_vars

\* A batch without an email file was submitted from IDLE and rejected.
ScenarioCWitness ==
    /\ path = <<"IDLE", "VALIDATING", "ERROR">>
    /\ Len(sent) = 1 /\ sent[1].type = "SET_ERROR"
    /\ sent[1].error = <<CategoryRequired>>
    /\ context.files = <<>>
    /\ runs = <<>>

\* The analysis tasks of a run that were given the file named n.
TasksOn(run, n) == {i \in DOMAIN run.tasks : run.tasks[i].file = n}

\* The run analyses each page image of its PDFs by one task, an image task,
\* invoked once if no call has thrown, and no task has a PDF.
PagesAnalysedOnce(run, failed) ==
    /\ \A p \in 1..Len(run.context.convertedImagesFromPdfs) :
          LET on == TasksOn(run, run.context.convertedImagesFromPdfs[p].name)
          IN  /\ Cardinality(on) = 1
              /\ \A i \in on :
                    /\ run.tasks[i].role = "image"
                    /\ failed = 0 => Len(run.hist[i]) <= 1
                    /\ (failed = 0 /\ run.at = "over") => run.hist[i] = <<"ok">>
    /\ \A j \in 1..Len(run.context.files) :
          isPdfFile(run.context.files[j])
              => TasksOn(run, run.context.files[j].name) = {}

\* A step of scenario D for the batch b, submitted from IDLE.
ScenarioDStep(b) ==
    /\ (value = "VALIDATING" /\ context.files = b /\ value' # value)
          => value' = "CONVERTING_PDFS"
    /\ (value = "CONVERTING_PDFS" /\ context.files = b /\ path[1] = "IDLE"
            /\ value' = "ANALYZING_PARALLEL")
          => /\ runs[Len(runs)].kind = "pdf"
             /\ Len(context'.convertedImagesFromPdfs) = runs[Len(runs)].total[1]
    /\ \A k \in 1..Len(runs') :
          (runs'[k].kind = "analysis" /\ runs'[k].context.files = b)
              => PagesAnalysedOnce(runs'[k], faults')

StatusRank(st) == IF st = "queued" THEN 0 ELSE IF st = "processing" THEN 1 ELSE 2

\* A step within one run, started from IDLE.
SameRun ==
    /\ path # <<>> /\ path[1] = "IDLE"
    /\ path' # <<>> /\ path'[1] = "IDLE"
    /\ context'.files = context.files

\* C20: status monotonicity.  Within one run no key of fileProcessingStatus
\* goes from error or success back to processing or queued, nor from
\* processing back to queued.
StatusMonotone ==
    [][SameRun =>
          \A n \in (DOMAIN context.fileProcessingStatus)
                        \cap (DOMAIN context'.fileProcessingStatus) :
              StatusRank(context'.fileProcessingStatus[n])
                  >= StatusRank(context.fileProcessingStatus[n])]_vars

\* C21: status coverage.  While value is ANALYZING_PARALLEL,
\* fileProcessingStatus has an entry for the name of every file of
\* context.files and of context.convertedImagesFromPdfs.
StatusCoverage ==
    value = "ANALYZING_PARALLEL" =>
        \A f \in {context.files[j] : j \in 1..Len(context.files)}
                    \cup {context.convertedImagesFromPdfs[j] :
                            j \in 1..Len(context.convertedImagesFromPdfs)} :
            f.name \in DOMAIN context.fileProcessingStatus

\* The files of group role of a run's tasks.
GroupFiles(run, role) ==
    {run.tasks[i].file : i \in {j \in DOMAIN run.tasks : run.tasks[j].role = role}}

\* C22: role partition.  In every runAnalysis each file is given to at most
\* one analysis task, the files of the Salesforce, email and image groups
\* are pairwise disjoint, and no task is given a PDF.
RolePartition ==
    \A k \in 1..Len(runs) :
        runs[k].kind = "analysis" =>
            LET run == runs[k]
                all == run.context.files \o run.context.convertedImagesFromPdfs
            IN  /\ \A j \in 1..Len(all) : Cardinality(TasksOn(run, all[j].name)) <= 1
                /\ GroupFiles(run, "salesforce") \cap GroupFiles(run, "email") = {}
                /\ GroupFiles(run, "salesforce") \cap GroupFiles(run, "image") = {}
                /\ GroupFiles(run, "email") \cap GroupFiles(run, "image") = {}
                /\ \A j \in 1..Len(all) :
                      isPdfFile(all[j]) => TasksOn(run, all[j].name) = {}

\* The tasks of a run whose analysis call is in flight: each has written
\* 'processing' to the key of its file and will write 'success' or 'error'.
Writers(run) == {i \in DOMAIN run.pool.pc : run.pool.pc[i] = "running"}

\* C23: key ownership.  No two distinct tasks that run concurrently in one
\* run write the same key of fileProcessingStatus.
KeyOwnership ==
    \A k \in 1..Len(runs) :
        runs[k].kind = "analysis" =>
            \A i, j \in Writers(runs[k]) :
                i # j => runs[k].tasks[i].file # runs[k].tasks[j].file

\* A call issued by run k settles, or its retry timer fires, after the run
\* has ended: the async function of the run has returned or thrown.
StaleCompletion(k) ==
    /\ runs[k].at = "over"
    /\ Len(runs') = Len(runs)
    /\ runs'[k] # runs[k]

\* C24: stale results are discarded.  The events of a call that completes
\* after its run has ended leave value and every field of context as they
\* are, in whatever state they arrive.
StaleResultsDiscarded ==
    [][(\E k \in 1..Len(runs) : StaleCompletion(k))
          => (value' = value /\ context' = context)]_vars

\* C25: success callback exactly once.  onSuccess is called in COMPLETE
\* only, with context.newlyCreatedProject, and once for a run that reaches
\* COMPLETE, also when the hook is rendered with a new onSuccess while the
\* machine remains in COMPLETE.
OnSuccessOnce ==
    [][/\ Len(called') <= 1
       /\ Len(called') > Len(called) =>
             /\ value = "COMPLETE" /\ value' = "COMPLETE"
             /\ context.newlyCreatedProject # None
             /\ called' = Append(called, context.newlyCreatedProject[1])
       /\ (value' = "COMPLETE" /\ effect' = "none") => Len(called') = 1]_vars

(***************************************************************************)
(* The merge of the analysis results: MERGING LOGIC of runAnalysis in      *)
(* hooks/useProjectOrchestrator.ts, and the same step of                   *)
(* handleCreateProject in the App component.                               *)
(*                                                                         *)
(* A result is modelled by the fields the merge computes with:             *)
(* project_details of a Salesforce result, conversation_nodes (node_id,    *)
(* parent_node_id) and action_items (id) of an email result.  The fields   *)
(* that are only concatenated (conversation_summary, attachments,          *)
(* mentioned_attachments) are left out.  A parent_node_id is None for      *)
(* null.                                                                   *)
(***************************************************************************)

\* ---- what the analyses return ----
\* analyzeEmailConversation: the post-processing that gives every action
\* item the id `task-${Date.now()}-${index}`, run at time t on data with n
\* action items.
actionItemsAt(t, n) == [k \in 1..n |-> [id |-> <<"task", t, k - 1>>]]

\* analyzeEmailConversation(file), resolving at time t with the nodes and
\* the n action items the model returned.
analyzeEmailConversation(nodes, n, t) ==
    [conversation_nodes |-> nodes, action_items |-> actionItemsAt(t, n)]

\* ---- the merge of runAnalysis ----
\* Math.max over the node_id of nodes, from 0
maxNodeId(nodes) ==
    IF nodes = <<>> THEN 0
    ELSE CHOOSE m \in {nodes[k].node_id : k \in 1..Len(nodes)} \cup {0} :
            \A k \in 1..Len(nodes) : nodes[k].node_id <= m

\* node.parent_node_id ? ... : null  (null and 0 are falsy)
Truthy(parent) == parent # None /\ parent[1] # 0

\* result.conversation_nodes.map((node, i) => ({ ...node,
\*     node_id: maxNodeId + 1 + i,
\*     parent_node_id: node.parent_node_id ? maxNodeId + node.parent_node_id : null }))
reindexedNodes(acc, res) ==
    LET m == maxNodeId(acc.conversation_nodes)
    IN  [k \in 1..Len(res.conversation_nodes) |->
            [node_id |-> m + 1 + (k - 1),
             parent_node_id |->
                 IF Truthy(res.conversation_nodes[k].parent_node_id)
                 THEN Some(m + res.conversation_nodes[k].parent_node_id[1])
                 ELSE None]]

\* the callback of emailResults.reduce
mergeEmail(acc, res) ==
    [action_items |-> acc.action_items \o res.action_items,
     conversation_nodes |-> acc.conversation_nodes \o reindexedNodes(acc, res)]

RECURSIVE mergedEmailData(_)
\* emailResults.reduce(..., { action_items: [], conversation_nodes: [], ... })
mergedEmailData(rs) ==
    IF rs = <<>> THEN [action_items |-> <<>>, conversation_nodes |-> <<>>]
    ELSE mergeEmail(mergedEmailData(SubSeq(rs, 1, Len(rs) - 1)), rs[Len(rs)])

\* { ...a, ...b }
Spread(a, b) ==
    [f \in (DOMAIN a) \cup (DOMAIN b) |-> IF f \in DOMAIN b THEN b[f] ELSE a[f]]

RECURSIVE mergedProjectDetails(_)
\* salesforceResults.reduce((acc, result) => ({ ...acc, ...result.project_details }),
\*     { project_name: '', opportunity_number: '', account_name: '', opp_revenue: 0 })
mergedProjectDetails(rs) ==
    IF rs = <<>>
    THEN [project_name |-> "", opportunity_number |-> "", account_name |-> "",
          opp_revenue |-> 0]
    ELSE Spread(mergedProjectDetails(SubSeq(rs, 1, Len(rs) - 1)),
                rs[Len(rs)].project_details)

\* ---- the merge of handleCreateProject (App) ----
\* idMap after tempNodes: the new id of the last node that has the old id
idMapOf(m, nodes) ==
    [old \in {nodes[k].node_id : k \in 1..Len(nodes)} |->
        LET last == CHOOSE k \in 1..Len(nodes) :
                        /\ nodes[k].node_id = old
                        /\ \A j \in 1..Len(nodes) : nodes[j].node_id = old => j <= k
        IN  m + 1 + (last - 1)]

\* tempNodes and reindexedNodes of handleCreateProject
reindexedNodesApp(acc, res) ==
    LET m == maxNodeId(acc.conversation_nodes)
        idMap == idMapOf(m, res.conversation_nodes)
    IN  [k \in 1..Len(res.conversation_nodes) |->
            LET parent == res.conversation_nodes[k].parent_node_id
            IN  [node_id |-> m + 1 + (k - 1),
                 parent_node_id |->
                     IF parent # None /\ parent[1] \in DOMAIN idMap
                     THEN Some(idMap[parent[1]]) ELSE None]]

mergeEmailApp(acc, res) ==
    [action_items |-> acc.action_items \o res.action_items,
     conversation_nodes |-> acc.conversation_nodes \o reindexedNodesApp(acc, res)]

RECURSIVE mergedEmailDataApp(_)
mergedEmailDataApp(rs) ==
    IF rs = <<>> THEN [action_items |-> <<>>, conversation_nodes |-> <<>>]
    ELSE mergeEmailApp(mergedEmailDataApp(SubSeq(rs, 1, Len(rs) - 1)), rs[Len(rs)])

\* a || b for strings ('' is falsy) and for numbers (0 is falsy)
OrElseString(a, b) == IF a = "" THEN b ELSE a
OrElseNumber(a, b) == IF a = 0 THEN b ELSE a

\* the callback of validSalesforceResults.reduce
mergeDetailsApp(acc, d) ==
    [project_name |-> OrElseString(acc.project_name, d.project_name),
     opportunity_number |-> OrElseString(acc.opportunity_number, d.opportunity_number),
     account_name |-> OrElseString(acc.account_name, d.account_name),
     opp_revenue |-> OrElseNumber(acc.opp_revenue, d.opp_revenue)]

RECURSIVE mergedProjectDetailsApp(_)
mergedProjectDetailsApp(rs) ==
    IF rs = <<>>
    THEN [project_name |-> "", opportunity_number |-> "", account_name |-> "",
          opp_revenue |-> 0]
    ELSE mergeDetailsApp(mergedProjectDetailsApp(SubSeq(rs, 1, Len(rs) - 1)),
                         rs[Len(rs)].project_details)

\* ---- the merge on its own: any results ----
\* A parent_node_id: null, or the id of some node or of none.
Parents == {None} \cup {Some(n) : n \in 1..MaxNodeId}

ConversationNodes == [node_id : 1..MaxNodeId, parent_node_id : Parents]

\* The sequences over S of length up to n.
SeqUpTo(S, n) == UNION {[1..k -> S] : k \in 0..n}

\* conversation_nodes of one result: the model may return any ids
NodeLists == SeqUpTo(ConversationNodes, MaxNodes)

\* The email results: with conversation nodes, or with action items made at
\* some time.
EmailResults ==
    {analyzeEmailConversation(nodes, 0, 0) : nodes \in NodeLists}
    \cup {analyzeEmailConversation(<<>>, n, t) : n \in 0..MaxItems, t \in 0..MaxTime}

\* The Salesforce results.
SalesforceResults ==
    [project_details :
        [project_name : {"", "Alpha", "Beta"},
         opportunity_number : {"", "OPP-1"},
         account_name : {"", "Acme"},
         opp_revenue : 0..MaxRevenue]]

\* runAnalysis merges the results of the two text groups.
MergeInHook ==
    /\ mergeOut = None
    /\ mergeOut' = Some([by |-> "useProjectOrchestrator",
                         project_details |-> mergedProjectDetails(mergeIn.salesforce),
                         email |-> mergedEmailData(mergeIn.email)])
    /\ UNCHANGED <<semVars, cbVars, now, taskVars, poolVars, semHist, cbHist,
                   revision, value, context, effect, runs, path, sent, faults,
                   submits, called, mergeIn>>

\* handleCreateProject merges the results of the two text groups.
MergeInApp ==
    /\ mergeOut = None
    /\ mergeOut' = Some([by |-> "App",
                         project_details |-> mergedProjectDetailsApp(mergeIn.salesforce),
                         email |-> mergedEmailDataApp(mergeIn.email)])
    /\ UNCHANGED <<semVars, cbVars, now, taskVars, poolVars, semHist, cbHist,
                   revision, value, context, effect, runs, path, sent, faults,
                   submits, called, mergeIn>>

MergeNext == MergeInHook \/ MergeInApp

\* The results are those of Salesforce files only or of email files only:
\* the two reduce calls do not read each other's input.
MergeInit ==
    /\ Constructed
    /\ revision = Hooks
    /\ mergeOut = None
    /\ mergeIn \in [salesforce : SeqUpTo(SalesforceResults, MaxResults),
                     email : {<<>>}]
                    \cup [salesforce : {<<>>},
                          email : SeqUpTo(EmailResults, MaxResults)]

MergeSpec == MergeInit /\ [][MergeNext]_vars

(***************************************************************************)
(* Properties of the merge                                                 *)
(***************************************************************************)

\* The node_id values of nodes.
IdsOf(nodes) == {nodes[k].node_id : k \in 1..Len(nodes)}

\* The node ids of nodes are pairwise distinct and every non-null
\* parent_node_id is the id of one of them.
WellFormedNodes(nodes) ==
    /\ \A i, j \in 1..Len(nodes) : i # j => nodes[i].node_id # nodes[j].node_id
    /\ \A i \in 1..Len(nodes) :
          nodes[i].parent_node_id # None
              => nodes[i].parent_node_id[1] \in IdsOf(nodes)

\* C26: the merged node set is well formed.  If every email result has
\* pairwise distinct node ids and parents that name nodes of the same result,
\* the merged conversation_nodes have pairwise distinct ids and every
\* non-null parent_node_id is the id of a merged node.
MergedNodesWellFormed ==
    (/\ mergeOut # None
     /\ \A k \in 1..Len(mergeIn.email) :
           WellFormedNodes(mergeIn.email[k].conversation_nodes))
        => WellFormedNodes(mergeOut[1].email.conversation_nodes)

\* The same, of the merge of handleCreateProject only.
MergedNodesWellFormedInApp ==
    (mergeOut # None /\ mergeOut[1].by = "App") => MergedNodesWellFormed

\* The number of nodes of the results before result k of rs: the merged copy
\* of node i of result k is the node at OffsetOf(rs, k) + i of the merge.
RECURSIVE OffsetOf(_, _)
OffsetOf(rs, k) ==
    IF k <= 1 THEN 0
    ELSE OffsetOf(rs, k - 1) + Len(rs[k - 1].conversation_nodes)

\* The position in nodes of the node whose id is id.
PositionOf(nodes, id) == CHOOSE i \in 1..Len(nodes) : nodes[i].node_id = id

\* The node ids of every email result merged are pairwise distinct.
DistinctIdsPerResult ==
    \A k \in 1..Len(mergeIn.email) :
        \A i, j \in 1..Len(mergeIn.email[k].conversation_nodes) :
            i # j => mergeIn.email[k].conversation_nodes[i].node_id
                        # mergeIn.email[k].conversation_nodes[j].node_id

\* C27: parent rewriting is consistent.  If node n of result k had parent p
\* in result k, the merged copy of n has as parent the new id given to p; a
\* parent_node_id that names no node of the same result is null in the merge.
ParentRewriting ==
    (mergeOut # None /\ DistinctIdsPerResult)
        => \A k \in 1..Len(mergeIn.email) :
              LET nodes  == mergeIn.email[k].conversation_nodes
                  merged == mergeOut[1].email.conversation_nodes
                  off    == OffsetOf(mergeIn.email, k)
              IN  \A i \in 1..Len(nodes) :
                     nodes[i].parent_node_id # None
                         => IF nodes[i].parent_node_id[1] \in IdsOf(nodes)
                            THEN merged[off + i].parent_node_id =
                                   Some(merged[off + PositionOf(nodes,
                                          nodes[i].parent_node_id[1])].node_id)
                            ELSE merged[off + i].parent_node_id = None

\* The same, of the merge of handleCreateProject only.
ParentRewritingInApp ==
    (mergeOut # None /\ mergeOut[1].by = "App") => ParentRewriting

\* The fields of the project details.
DetailFields == {"project_name", "opportunity_number", "account_name", "opp_revenue"}

\* Field f of details d is set: a non-empty string, a non-zero revenue.
FieldSet(d, f) == IF f = "opp_revenue" THEN d[f] # 0 ELSE d[f] # ""

\* C28: first non-empty wins.  Every field of the merged project details
\* that some Salesforce result sets has the value of the first result that
\* sets it, whatever the later results hold.
FirstNonEmptyWins ==
    mergeOut # None
        => \A f \in DetailFields :
              \A k \in 1..Len(mergeIn.salesforce) :
                 (/\ FieldSet(mergeIn.salesforce[k].project_details, f)
                  /\ \A j \in 1..(k - 1) :
                        ~FieldSet(mergeIn.salesforce[j].project_details, f))
                     => mergeOut[1].project_details[f]
                           = mergeIn.salesforce[k].project_details[f]

\* The same, of the merge of handleCreateProject only.
FirstNonEmptyWinsInApp ==
    (mergeOut # None /\ mergeOut[1].by = "App") => FirstNonEmptyWins

\* C29: action item ids are unique.  The ids of the merged action_items are
\* pairwise distinct, whenever the email analyses completed.
ActionItemIdsUnique ==
    mergeOut # None
        => LET items == mergeOut[1].email.action_items
           IN  \A i, j \in 1..Len(items) : i # j => items[i].id # items[j].id

\* The same, when no two email analyses completed at the same clock value.
ActionItemIdsUniqueAtDistinctTimes ==
    (\A i, j \in 1..Len(mergeIn.email) :
        (/\ i # j
         /\ mergeIn.email[i].action_items # <<>>
         /\ mergeIn.email[j].action_items # <<>>)
            => mergeIn.email[i].action_items[1].id[2]
                  # mergeIn.email[j].action_items[1].id[2])
        => ActionItemIdsUnique

(***************************************************************************)
(* The pipeline on a batch with two PDFs                                   *)
(***************************************************************************)

ScanPdf == FileNamed("scan", "pdf", "application", "pdf")

\* The first batch submitted: a Salesforce file and two PDFs, converted
\* concurrently.
PdfBatches == {<<SfMd, ReportPdf, ScanPdf>>}

\* The pipeline, the first batch being one of PdfBatches.
PdfNext ==
    \/ submits = 0 /\ \E b \in PdfBatches : SubmitFiles(b)
    \/ submits > 0 /\ OrchNext

PdfSpec == Init /\ [][PdfNext]_vars

\* convertPdfToImages of PDF j of run k settles in this step.
PdfSettles(k, j) ==
    /\ k \in 1..Len(runs) /\ Len(runs') = Len(runs)
    /\ runs[k].kind = "pdf"
    /\ j \in DOMAIN runs[k].done
    /\ runs[k].done[j] = "running"
    /\ runs'[k].done[j] # "running"

\* The SET_ERROR events among es.
SetErrorsIn(es) == {i \in 1..Len(es) : es[i].type = "SET_ERROR"}

\* Is run an analysis of the files of the PDF run r?
AnalysisOf(run, r) == run.kind = "analysis" /\ run.context.files = r.context.files

\* A step of a run whose PDF conversions are settling.  The first conversion
\* that fails takes the machine from CONVERTING_PDFS to ERROR by one
\* SET_ERROR, with no analysis of the batch started; a conversion that
\* settles after that leaves the value as it is; and no analysis starts for
\* a batch one of whose conversions has failed.
PdfFailureStep ==
    /\ \A k \in 1..Len(runs), j \in FileIds :
          PdfSettles(k, j) =>
             IF runs[k].at = "over"
             THEN value' = value
             ELSE runs'[k].done[j] = "failed" =>
                     /\ value = "CONVERTING_PDFS"
                     /\ context.files = runs[k].context.files
                     /\ value' = "ERROR"
                     /\ Cardinality(SetErrorsIn(sent')) = 1
                     /\ runs'[k].at = "over"
                     /\ \A m \in 1..Len(runs') : ~AnalysisOf(runs'[m], runs[k])
    /\ \A k \in 1..Len(runs), m \in 1..Len(runs') :
          (/\ runs[k].kind = "pdf"
           /\ \E j \in DOMAIN runs[k].done : runs[k].done[j] = "failed")
              => (AnalysisOf(runs'[m], runs[k]) => m <= Len(runs)
                                                    /\ AnalysisOf(runs[m], runs[k]))

\* C30: PDF failure aborts before analysis.  In a run where a PDF conversion
\* fails one SET_ERROR is dispatched, the machine goes from CONVERTING_PDFS
\* to ERROR and no analysis of the run is started, in whatever order the
\* conversions settle.
PdfFailureAborts == [][PdfFailureStep]_vars

\* Both conversions of [sf.md, report.pdf, scan.pdf] have settled, one of
\* them failed after the other had been converted, and the machine is in
\* ERROR with no analysis started.
PdfFailureWitness ==
    /\ path = <<"IDLE", "VALIDATING", "CONVERTING_PDFS", "ERROR">>
    /\ context.files = <<SfMd, ReportPdf, ScanPdf>>
    /\ Len(runs) = 1
    /\ runs[1].kind = "pdf"
    /\ runs[1].done = <<"ok", "failed">>

\* Both conversions have failed, scan.pdf after the machine was in ERROR.
PdfBothFailWitness ==
    /\ path = <<"IDLE", "VALIDATING", "CONVERTING_PDFS", "ERROR">>
    /\ context.files = <<SfMd, ReportPdf, ScanPdf>>
    /\ Len(runs) = 1
    /\ runs[1].kind = "pdf"
    /\ runs[1].done = <<"failed", "failed">>

(***************************************************************************)
(* Validation of any batch                                                 *)
(***************************************************************************)

\* The batch of a .md files of zm MB, b .txt files of zt MB, c .jpg files of
\* zj MB and d copies of report.pdf of zp MB.
BatchOf(a, zm, b, zt, c, zj, d, zp) ==
    LET MdNames == <<"sf1", "sf2", "sf3", "sf4", "sf5", "sf6">>
        TxtNames == <<"em1", "em2", "em3", "em4", "em5", "em6">>
        JpgNames == <<"im1", "im2", "im3", "im4", "im5", "im6", "im7", "im8",
                      "im9", "im10", "im11">>
        Sized(f, z) == [f EXCEPT !.size = z]
    IN  [k \in 1..a |->
            Sized(FileNamed(MdNames[k], "md", "text", "markdown"), zm)]
        \o [k \in 1..b |->
               Sized(FileNamed(TxtNames[k], "txt", "text", "plain"), zt)]
        \o [k \in 1..c |->
               Sized(FileNamed(JpgNames[k], "jpg", "image", "jpeg"), zj)]
        \o [k \in 1..d |-> Sized(ReportPdf, zp)]

\* Batches on either side of every count ceiling and every size ceiling:
\* sizes in MB within every ceiling, and above the image, the Salesforce and
\* the email ceiling.
ValidationBatches ==
    {BatchOf(a, zm, b, zt, c, zj, d, zp) :
        a \in {0, 1, MAX_SALESFORCE_FILES + 1},
        zm \in {1, MAX_SALESFORCE_FILE_SIZE_MB + 1, MAX_EMAIL_FILE_SIZE_MB + 1},
        b \in {0, 1, MAX_EMAIL_FILES + 1},
        zt \in {1, MAX_EMAIL_FILE_SIZE_MB + 1},
        c \in {0, 1, MAX_IMAGE_FILES + 1},
        zj \in {1, MAX_IMAGE_FILE_SIZE_MB + 1, MAX_SALESFORCE_FILE_SIZE_MB + 1,
                MAX_EMAIL_FILE_SIZE_MB + 1},
        d \in {0, 1},
        zp \in {1, MAX_EMAIL_FILE_SIZE_MB + 1}}

\* The pipeline of the first batch up to the calls its effects start:
\* submitFiles, the VALIDATING effect, and the effects that call
\* convertPdfToImages and the analyses.
ValidationNext ==
    \/ submits = 0 /\ \E b \in ValidationBatches : SubmitFiles(b)
    \/ ValidatingEffect
    \/ \E n \in 1..MaxPages : ConvertingPdfsEffect(n)
    \/ AnalyzingParallelEffect

ValidationSpec == Init /\ [][ValidationNext]_vars

\* How many files of fs satisfy P.
CountOf(fs, P(_)) == Cardinality({k \in 1..Len(fs) : P(fs[k])})

\* The structural checks that fs fails, each as the line it must be
\* reported by.
FailingChecks(fs) ==
    {CategoryRequired :
        x \in {1} \cap (IF CountOf(fs, isSalesforceFile) = 0
                           \/ CountOf(fs, isEmailFile) = 0 THEN {1} ELSE {})}
    \cup {[line |-> "Max files."] :
        x \in {1} \cap (IF Len(fs) > MAX_TOTAL_FILES THEN {1} ELSE {})}
    \cup {[line |-> "Max Salesforce files."] :
        x \in {1} \cap (IF CountOf(fs, isSalesforceFile) > MAX_SALESFORCE_FILES
                        THEN {1} ELSE {})}
    \cup {[line |-> "Max email files."] :
        x \in {1} \cap (IF CountOf(fs, isEmailFile) > MAX_EMAIL_FILES
                        THEN {1} ELSE {})}
    \cup {[line |-> "Max images."] :
        x \in {1} \cap (IF CountOf(fs, isImageFile) > MAX_IMAGE_FILES
                        THEN {1} ELSE {})}
    \cup {[line |-> "SF File > MB", file |-> fs[k].name] :
        k \in {i \in 1..Len(fs) : isSalesforceFile(fs[i])
                                    /\ fs[i].size > MAX_SALESFORCE_FILE_SIZE_MB}}
    \cup {[line |-> "Email File > MB", file |-> fs[k].name] :
        k \in {i \in 1..Len(fs) : isEmailFile(fs[i])
                                    /\ fs[i].size > MAX_EMAIL_FILE_SIZE_MB}}
    \cup {[line |-> "Image > MB", file |-> fs[k].name] :
        k \in {i \in 1..Len(fs) : isImageFile(fs[i]) /\ ~isPdfFile(fs[i])
                                    /\ fs[i].size > MAX_IMAGE_FILE_SIZE_MB}}

\* The step of the VALIDATING effect, and the steps that start a call.
ValidationStep ==
    /\ (value = "VALIDATING" /\ effect = "pending") =>
          /\ Len(sent') = 1
          /\ sent'[1].type \in {"VALIDATION_SUCCESS", "SET_ERROR"}
          /\ sent'[1].type = "SET_ERROR" <=> FailingChecks(context.files) # {}
          /\ sent'[1].type = "SET_ERROR" =>
                /\ {sent'[1].error[k] : k \in 1..Len(sent'[1].error)}
                      = FailingChecks(context.files)
                /\ Len(sent'[1].error) = Cardinality(FailingChecks(context.files))
                /\ value' = "ERROR"
                /\ context'.error = Some(sent'[1].error)
          /\ sent'[1].type = "VALIDATION_SUCCESS" =>
                value' \in {"CONVERTING_PDFS", "ANALYZING_PARALLEL"}
          /\ runs' = runs
    /\ runs' # runs =>
          /\ value \in {"CONVERTING_PDFS", "ANALYZING_PARALLEL"}
          /\ path = <<"IDLE", "VALIDATING", value>>
          /\ FailingChecks(context.files) = {}

\* C31: validation is exhaustive and comes first.  The VALIDATING effect
\* dispatches one event, VALIDATION_SUCCESS or SET_ERROR; SET_ERROR iff a
\* structural check fails, with one line for every failing check; and no PDF
\* conversion or analysis is started before VALIDATION_SUCCESS.
ValidationExhaustive == [][ValidationStep]_vars

\* A batch without a Salesforce file, with too many email files, each of
\* them oversized, was rejected with a line for each of the failing checks.
ValidationWitness ==
    /\ value = "ERROR"
    /\ path = <<"IDLE", "VALIDATING", "ERROR">>
    /\ Len(context.error[1]) = MAX_EMAIL_FILES + 3
    /\ \E i, j, k \in 1..Len(context.error[1]) :
          /\ context.error[1][i] = CategoryRequired
          /\ context.error[1][j] = [line |-> "Max email files."]
          /\ context.error[1][k].line = "Email File > MB"

\* A batch that passes every check started its analyses.
ValidationPassedWitness ==
    /\ value = "ANALYZING_PARALLEL"
    /\ path = <<"IDLE", "VALIDATING", "ANALYZING_PARALLEL">>
    /\ Len(runs) = 1

(***************************************************************************)
(* Error handling of the pipeline                                          *)
(***************************************************************************)

\* The machine is in ERROR by the SET_ERROR of runAnalysis or of
\* runPdfConversion, and the run that dispatched it is the last one started.
InErrorAfterRun ==
    /\ value = "ERROR"
    /\ context.error # None
    /\ context.error[1] \in
          {<<[line |-> "Project synthesis failed."]>>,
           <<[line |-> "Failed to convert one or more PDF files."]>>}
    /\ runs # <<>>
    /\ runs[Len(runs)].context.files = context.files

\* The files of run whose analysis or conversion has ended without success:
\* the task was rejected by the breaker, threw an error that is not retried,
\* or used up its attempts; the conversion threw.
FailedFiles(run) ==
    IF run.kind = "analysis"
    THEN {run.tasks[i].file :
            i \in {j \in DOMAIN run.tasks :
                      /\ run.pool.pc[j] = "done"
                      /\ run.pool.result[j].status = "rejected"}}
    ELSE {run.pdfs[j].name :
            j \in {m \in DOMAIN run.done : run.done[m] = "failed"}}

\* C32: per-file error attribution.  Whenever the machine is in ERROR after
\* an analysis or a PDF conversion failed, every file whose analysis or
\* conversion did not succeed has the status 'error'.
ErrorAttribution ==
    InErrorAfterRun =>
        \A n \in FailedFiles(runs[Len(runs)]) :
            /\ n \in DOMAIN context.fileProcessingStatus
            /\ context.fileProcessingStatus[n] = "error"

\* The async function of analysis run k returns or throws in this step.
RunEnds(k) ==
    /\ Len(runs') >= Len(runs)
    /\ k \in 1..Len(runs')
    /\ runs'[k].kind = "analysis"
    /\ runs'[k].at = "over"
    /\ k <= Len(runs) => runs[k].at # "over"

\* The places in es of the events that end a run.
EndingsIn(es) ==
    {i \in 1..Len(es) : es[i].type \in {"ANALYSIS_COMPLETE", "SET_ERROR"}}

\* Every task of run was invoked and its last invocation resolved.
AllTasksSucceeded(run) ==
    \A i \in DOMAIN run.tasks :
        /\ run.pool.pc[i] = "done"
        /\ run.pool.result[i].status = "fulfilled"
        /\ run.hist[i] # <<>>
        /\ run.hist[i][Len(run.hist[i])] = "ok"

\* A step in which a run ends dispatches one of ANALYSIS_COMPLETE and
\* SET_ERROR, in ANALYZING_PARALLEL; a run that has ended dispatches neither
\* again.
JoinStep ==
    /\ \A k \in 1..Len(runs') :
          RunEnds(k) =>
             /\ value = "ANALYZING_PARALLEL"
             /\ Cardinality(EndingsIn(sent')) = 1
             /\ LET e == sent'[Len(sent')]
                IN  /\ e.type \in {"ANALYSIS_COMPLETE", "SET_ERROR"}
                    /\ e.type = "SET_ERROR" => value' = "ERROR"
                    /\ e.type = "ANALYSIS_COMPLETE" =>
                          /\ AllTasksSucceeded(runs'[k])
                          /\ context'.analysisPayload = Some(e.payload)
                          /\ IF Len(e.payload.imageData) > 0
                             THEN /\ value' = "AWAITING_REVIEW"
                                  /\ context'.finalImages = None
                             ELSE /\ value' = "CREATING_PROJECT"
                                  /\ context'.finalImages = Some(<<>>)
    /\ \A k \in 1..Len(runs) :
          (runs[k].kind = "analysis" /\ StaleCompletion(k))
              => (value' = value /\ runs'[k].at = "over")

JoinBarrierNoImageWitness ==
    /\ value = "CREATING_PROJECT"
    /\ context.files = <<SfMd, EmailTxt>>
    /\ Len(runs) = 1
    /\ AllTasksSucceeded(runs[1])
    /\ context.finalImages = Some(<<>>)

(***************************************************************************)
(* The breaker around the retry policy                                     *)
(***************************************************************************)

\* The tasks whose circuitBreaker.execute rejects in this step with the
\* error of the retry policy, not with the breaker's own.
FailingNow ==
    {i \in Tasks : /\ pc[i] # "done" /\ pc'[i] = "done"
                   /\ result'[i].status = "rejected"
                   /\ result'[i].reason.kind # "open"}

\* C34: the breaker wraps the retry policy.  The failure counter goes up by
\* one, in the step in which the execute of one task rejects, whatever the
\* number of invocations of the task; an invocation that is retried leaves
\* the breaker as it is; a task rejected by the open breaker is never
\* invoked, and only a task whose invocation threw waits for a retry.
BreakerWrapsRetry ==
    [][ /\ failureCount' > failureCount =>
              /\ failureCount' = failureCount + 1
              /\ Cardinality(FailingNow) = 1
        /\ \A i \in Tasks :
              /\ (pc[i] = "running" /\ pc'[i] = "backoff") =>
                    (failureCount' = failureCount /\ state' = state)
              /\ (pc[i] # "backoff" /\ pc'[i] = "backoff") =>
                    (pc[i] = "running" /\ hist'[i] # <<>>)
              /\ (pc'[i] = "done" /\ result'[i] = Rejected(BreakerOpenError(i))) =>
                    (hist'[i] = <<>> /\ pc[i] \in {"new", "waiting", "done"})
      ]_vars

\* A task failed after using every attempt and counts as one failure, a
\* second failure opened the breaker, and a third task was rejected by the
\* open breaker without being invoked.
BreakerWrapsRetryWitness ==
    /\ failureCount = failureThreshold
    /\ state = "OPEN"
    /\ \E i, j \in Tasks :
          /\ Len(hist[i]) = maxAttempts
          /\ pc[i] = "done" /\ result[i].status = "rejected"
          /\ result[j] = Rejected(BreakerOpenError(j))
          /\ hist[j] = <<>>

\* The tasks of run whose execute was rejected.
RejectedTasks(run) ==
    {i \in DOMAIN run.tasks :
        run.pool.pc[i] = "done" /\ run.pool.result[i].status = "rejected"}

\* The run of the first batch has settled every task, one call having
\* thrown in all, an error that is not retried.
OneTaskFailed(run) ==
    /\ run.kind = "analysis"
    /\ submits = 1
    /\ faults = 1
    /\ run.context.files = context.files
    /\ \A i \in DOMAIN run.tasks : run.pool.pc[i] = "done"
    /\ Cardinality(RejectedTasks(run)) = 1

\* C35: single failure isolation.  In a run where exactly one task fails,
\* with an error that is not retried, every other task is invoked and
\* resolves, its file has the status 'success', and the aggregate error has
\* the error of the one task only.
SingleFailureIsolation ==
    \A k \in 1..Len(runs) :
        OneTaskFailed(runs[k]) =>
            LET run == runs[k]
                f == CHOOSE i \in RejectedTasks(run) : TRUE
            IN  /\ \A i \in (DOMAIN run.tasks) \ {f} :
                      /\ run.hist[i] = <<"ok">>
                      /\ run.pool.result[i].status = "fulfilled"
                      /\ run.tasks[i].file # run.tasks[f].file =>
                            /\ run.tasks[i].file \in DOMAIN context.fileProcessingStatus
                            /\ context.fileProcessingStatus[run.tasks[i].file]
                                  = "success"
                /\ \A b \in 1..3 :
                      run.out[b].kind = "throw" =>
                          run.out[b].error.errors = <<run.pool.result[f].reason>>

\* The same without the statuses: the other tasks are invoked and resolve,
\* and the aggregate error has the error of the one task only.
SingleFailureIsolatesCalls ==
    \A k \in 1..Len(runs) :
        OneTaskFailed(runs[k]) =>
            LET run == runs[k]
                f == CHOOSE i \in RejectedTasks(run) : TRUE
            IN  /\ \A i \in (DOMAIN run.tasks) \ {f} :
                      /\ run.hist[i] = <<"ok">>
                      /\ run.pool.result[i].status = "fulfilled"
                /\ \A b \in 1..3 :
                      run.out[b].kind = "throw" =>
                          run.out[b].error.errors = <<run.pool.result[f].reason>>

(***************************************************************************)
(* The fields of the context                                               *)
(***************************************************************************)

\* analysisPayload, finalImages and newlyCreatedProject are set in the
\* values that follow their writing, and in no other.
Populated ==
    /\ context.analysisPayload # None
          <=> value \in {"AWAITING_REVIEW", "CREATING_PROJECT", "COMPLETE"}
    /\ context.finalImages # None <=> value \in {"CREATING_PROJECT", "COMPLETE"}
    /\ context.newlyCreatedProject # None <=> value = "COMPLETE"

\* A field that is set keeps its value until it is null again.
WrittenOnce ==
    /\ (context.analysisPayload # None /\ context'.analysisPayload # None)
          => context'.analysisPayload = context.analysisPayload
    /\ (context.finalImages # None /\ context'.finalImages # None)
          => context'.finalImages = context.finalImages
    /\ (context.newlyCreatedProject # None /\ context'.newlyCreatedProject # None)
          => context'.newlyCreatedProject = context.newlyCreatedProject

ErrorIffError == context.error # None <=> value = "ERROR"

\* The SET_ERROR events among es that carry the message msg.
SetErrorsWith(es, msg) ==
    {i \in 1..Len(es) : es[i].type = "SET_ERROR" /\ es[i].error = msg}

\* context.error changes by a SET_ERROR that enters ERROR, to the message of
\* the event, or by leaving ERROR, to null.
ErrorWrittenBySetError ==
    context'.error # context.error =>
        IF context'.error # None
        THEN /\ value # "ERROR" /\ value' = "ERROR"
             /\ SetErrorsWith(sent', context'.error[1]) # {}
        ELSE /\ value = "ERROR" /\ value' \in {"IDLE", "VALIDATING"}
             /\ sent'[1].type \in {"SUBMIT_FILES", "RESET", "CANCEL"}

\* Every step that leaves ERROR clears context.error.
ErrorClearedOnLeaving ==
    (value = "ERROR" /\ value' # "ERROR") => context'.error = None

\* C37: error field.  In every reachable state context.error is non-null
\* iff value is ERROR; it is written by a SET_ERROR transition only, and is
\* cleared by every transition that leaves ERROR.
ErrorField ==
    ErrorIffError
    /\ [][ErrorIffError' /\ ErrorWrittenBySetError /\ ErrorClearedOnLeaving]_vars

\* The conversion of report.pdf failed: the machine is in ERROR with the
\* message of the SET_ERROR.
ErrorFieldWitness ==
    /\ value = "ERROR"
    /\ path = <<"IDLE", "VALIDATING", "CONVERTING_PDFS", "ERROR">>
    /\ context.error = Some(<<[line |-> "Failed to convert one or more PDF files."]>>)

\* A batch was submitted again from ERROR and the error is gone.
ErrorClearedWitness ==
    /\ value = "VALIDATING"
    /\ path = <<"ERROR", "VALIDATING">>
    /\ context.error = None

(***************************************************************************)
(* Progress of the pipeline                                                *)
(***************************************************************************)

\* A step of the pipeline that needs no UI event: an effect runs, or an
\* external call returns or throws, or a timer fires.
PipelineStep ==
    \/ ValidatingEffect
    \/ \E n \in 1..MaxPages : ConvertingPdfsEffect(n)
    \/ \E k \in 1..Len(runs), j \in FileIds : PdfProgress(k, j)
    \/ \E k \in 1..Len(runs), j \in FileIds : PdfConverted(k, j)
    \/ \E k \in 1..Len(runs), j \in FileIds : PdfFails(k, j)
    \/ AnalyzingParallelEffect
    \/ \E k \in 1..Len(runs), i \in RunTaskIds, o \in PoolOutcomes :
          RunAttemptSettles(k, i, o)
    \/ \E k \in 1..Len(runs), i \in RunTaskIds : RunBackoffEnds(k, i)
    \/ \E k \in 1..Len(runs), ok \in BOOLEAN : PreviewRead(k, ok)
    \/ CreatingProjectEffect
    \/ CompleteEffect

\* One run: the batch is submitted, the pipeline works, the user confirms
\* the review, time passes.  No cancel(), no reset(), no second batch.
ProgressNext ==
    \/ submits = 0
       /\ \E b \in {<<SfMd, EmailTxt>>, <<SfMd, ReportPdf>>} : SubmitFiles(b)
    \/ PipelineStep
    \/ \E imgs \in {<<>>, <<ProjectImageOf(PhotoJpg)>>} : ConfirmReview(imgs)
    \/ OrchTick

\* The hook of either source file.
ProgressInit == Constructed /\ revision \in Revisions /\ NoMerge

\* Effects run after the render that schedules them, and every external
\* call returns or throws: a pipeline step that stays possible is taken.
ProgressSpec == ProgressInit /\ [][ProgressNext]_vars /\ WF_vars(PipelineStep)

\* The values in which the pipeline works, and those in which it rests.
Working ==
    {"VALIDATING", "CONVERTING_PDFS", "ANALYZING_PARALLEL", "MERGING_RESULTS",
     "CREATING_PROJECT"}
Resting == {"AWAITING_REVIEW", "COMPLETE", "ERROR"}

\* Some task handed to a pool waits for its slot.
TaskWaiting ==
    \E k \in 1..Len(runs) :
        /\ runs[k].kind = "analysis"
        /\ \E i \in DOMAIN runs[k].pool.pc : runs[k].pool.pc[i] = "waiting"

\* C38: pipeline progress.  Every external call returning or throwing, the
\* machine goes from each working value to AWAITING_REVIEW, COMPLETE or
\* ERROR with no UI event, and every task handed to a pool is invoked or
\* rejected.
PipelineProgress ==
    /\ (value \in Working) ~> (value \in Resting)
    /\ TaskWaiting ~> ~TaskWaiting

\* The same of src/hooks/useProjectOrchestrator.ts only, which has no
\* MERGING_RESULTS.
PipelineProgressInHooks ==
    /\ (revision = Hooks /\ value \in Working) ~> (value \in Resting)
    /\ (revision = Hooks /\ TaskWaiting) ~> ~TaskWaiting

\* The other source file after ANALYSIS_COMPLETE: MERGING_RESULTS with no
\* effect scheduled and nothing of the run in flight.
StuckInMerging ==
    /\ value = "MERGING_RESULTS"
    /\ effect = "none"
    /\ ~ENABLED <<PipelineStep>>_vars

====
